---------------------------- MODULE Spec2Model ----------------------------
(***************************************************************************)
(* The transactional write-coordination layer of devflow: createQuestion,  *)
(* editQuestion, getQuestion and signUpWithCredentials                     *)
(* (src/lib/actions/question.action.ts), createAnswer and getAnswers       *)
(* (src/lib/actions/answer.actions.ts), the OAuth sign-in route            *)
(* (src/app/api/auth/signin-with-oauth/route.ts), POST /api/accounts,      *)
(* handleError (src/lib/handlers/error.ts) and dbConnect                   *)
(* (src/config/mongoose.ts), run against a document store with client      *)
(* sessions and snapshot transactions.                                     *)
(*                                                                         *)
(* Every `await` of a handler is one step of the request's process, so     *)
(* requests interleave exactly where the event loop lets them.             *)
(***************************************************************************)
EXTENDS Integers, Sequences, FiniteSets, TLC

VARIABLES
    db,      \* the committed documents: one function id -> document per collection
    sess,    \* per request: the client session and its transaction
    pc,      \* per request: the await the handler is suspended at
    loc,     \* per request: the handler's local variables
    res,     \* per request: what the last call returned (or threw)
    pre,     \* per request: db as it was when the current call entered (history)
    ops,     \* calls started so far (bounds the run)
    cached,  \* the connection cache of src/config/mongoose.ts
    promises \* the mongoose.connect attempts started so far, in order

connVars == <<cached, promises>>

vars == <<db, sess, pc, loc, res, pre, ops, cached, promises>>

---------------------------------------------------------------------------
(* Bounds of the model *)

NumProcs == 2
MaxQuestionCalls == 2
MaxAnswerCalls == 3
MaxOAuthCalls == 3
MaxTagsPerCall == 2

Procs == 1..NumProcs

---------------------------------------------------------------------------
(* The connection cache (src/config/mongoose.ts) *)

\* null; attempts and the connections they open are numbered from 1
Null == 0

\* let cached = global.mongoose; if (!cached) cached = { conn: null, promise: null }
EmptyCache == [conn |-> Null, promise |-> Null]

\* the promise of a connection attempt: pending, fulfilled with the connection
\* the attempt opened, or rejected with the attempt's error
Pending == [state |-> "pending"]
Fulfilled == [state |-> "fulfilled"]
Rejected == [state |-> "rejected"]

\* the cache and the attempts once a first dbConnect has connected: the
\* connection of attempt 1 is cached
ConnectedCache == [conn |-> 1, promise |-> 1]
ConnectedPromises == <<Fulfilled>>

(* Caller identities (session.user.id); NoSession is auth() returning null *)
UserIds == {"u1", "u2"}
NoSession == "anonymous"

---------------------------------------------------------------------------
(* Strings the code inspects character by character are character tuples  *)

Chars == {"J", "j", "s"}

LowerChar(c) == IF c = "J" THEN "j" ELSE c

\* String.prototype.toLowerCase
ToLowerCase(s) == [i \in 1..Len(s) |-> LowerChar(s[i])]

\* String.prototype.includes: part occurs in s as a contiguous substring
Includes(s, part) ==
    \E i \in 0..(Len(s) - Len(part)) :
        \A k \in 1..Len(part) : s[i + k] = part[k]

\* /^tag$/i tested against a stored name (names hold letters only)
RegexMatchI(name, tag) == ToLowerCase(name) = ToLowerCase(tag)

TagNames == {<<"J">>, <<"j">>, <<"j", "s">>}
Titles == {"t1", "t2"}
Contents == {"c1", "c2"}

---------------------------------------------------------------------------
(* The document store *)

EmptyDb ==
    [questions |-> <<>>, tags |-> <<>>, tq |-> <<>>,
     answers |-> <<>>, users |-> <<>>, accounts |-> <<>>]

Collections == {"questions", "tags", "tq", "answers", "users", "accounts"}

\* Model.create / insertMany of one document under a fresh id
Insert(d, coll, id, doc) == [d EXCEPT ![coll] = @ @@ (id :> doc)]

\* deleteMany of the documents whose ids are in ids
Delete(d, coll, ids) ==
    [d EXCEPT ![coll] = [x \in (DOMAIN @) \ ids |-> @[x]]]

\* what a committed transaction leaves: its written documents replace the
\* committed ones, its deleted documents disappear, everything else stays
Merge(base, view, wset) ==
    [c \in Collections |->
        LET W == {k[2] : k \in {w \in wset : w[1] = c}}
            ids == ((DOMAIN base[c]) \ W) \cup (W \cap DOMAIN view[c])
        IN [x \in ids |-> IF x \in W THEN view[c][x] ELSE base[c][x]]]

---------------------------------------------------------------------------
(* Client sessions and transactions (mongoose.startSession and the driver's *)
(* transaction states)                                                      *)

NoView == <<>>

ClosedSession ==
    [open |-> FALSE, txn |-> "none", view |-> NoView, wset |-> {}, stale |-> {}]

\* mongoose.startSession()
StartSession == [ClosedSession EXCEPT !.open = TRUE]

\* session.startTransaction(): nothing is sent until the first operation
StartTransaction(s) == [s EXCEPT !.txn = "starting"]

InTxn(s) == s.txn \in {"starting", "active"}

\* what an operation bound to session s reads: the transaction's snapshot with
\* its own writes, or the committed data when no transaction is in progress
SessionView(s) == IF s.txn = "active" THEN s.view ELSE db

\* the first operation of a transaction takes the snapshot
Touch(s) ==
    IF s.txn = "starting"
    THEN [s EXCEPT !.txn = "active", !.view = db, !.wset = {}, !.stale = {}]
    ELSE s

\* a write inside a transaction conflicts when another open transaction has
\* written one of its keys, or one was committed since the snapshot
Conflict(p, keys) ==
    /\ InTxn(sess[p])
    /\ \/ keys \cap Touch(sess[p]).stale # {}
       \/ \E r \in Procs \ {p} :
             sess[r].txn = "active" /\ keys \cap sess[r].wset # {}

\* committed writes make the snapshots of the other open transactions stale
Staled(ss, p, keys) ==
    [r \in Procs |->
        IF r # p /\ ss[r].txn = "active"
        THEN [ss[r] EXCEPT !.stale = @ \cup keys]
        ELSE ss[r]]

\* a write bound to p's session: newdb is the update applied to
\* SessionView(sess[p]); keys are the documents and unique index entries written.
\* Inside a transaction it stays in the transaction's view until the commit;
\* with no transaction in progress it is applied to the committed documents.
WrittenDb(p, newdb) == IF InTxn(sess[p]) THEN db ELSE newdb

WrittenSess(p, newdb, keys) ==
    IF InTxn(sess[p])
    THEN [sess EXCEPT ![p] =
             [Touch(@) EXCEPT !.view = newdb, !.wset = @ \cup keys]]
    ELSE Staled(sess, p, keys)

SessionWrite(p, newdb, keys) ==
    /\ db' = WrittenDb(p, newdb)
    /\ sess' = WrittenSess(p, newdb, keys)

\* a write that is not bound to a session: applied to the committed documents
DirectWrite(p, newdb, keys) ==
    /\ db' = newdb
    /\ sess' = Staled(sess, p, keys)

\* a read bound to p's session (takes the snapshot when it is the first operation)
SessionRead(p) ==
    /\ sess' = [sess EXCEPT ![p] = Touch(@)]
    /\ db' = db

\* the transaction states the driver moves a session to
Committed(s) == [s EXCEPT !.txn = "committed", !.view = NoView, !.wset = {}, !.stale = {}]

\* session.commitTransaction() succeeding: the committed documents afterwards
\* (a transaction that never ran an operation commits nothing)
CommitDb(p) ==
    IF sess[p].txn = "active" THEN Merge(db, sess[p].view, sess[p].wset) ELSE db

\* ... and the sessions afterwards
CommitSess(p) ==
    [Staled(sess, p, sess[p].wset) EXCEPT ![p] = Committed(@)]

\* session.commitTransaction() failing: nothing is applied; the driver has
\* already moved the transaction to its committed state
CommitFail(p) ==
    /\ db' = db
    /\ sess' = [sess EXCEPT ![p] = Committed(@)]

\* session.abortTransaction() is accepted only while a transaction is in
\* progress; otherwise the driver throws a MongoTransactionError
AbortAccepted(s) == InTxn(s)

AbortTransaction(s) ==
    IF AbortAccepted(s)
    THEN [s EXCEPT !.txn = "aborted", !.view = NoView, !.wset = {}, !.stale = {}]
    ELSE s

\* a release that leaves the session open
EndSessionSkipped(s) == s

\* session.endSession() (an open transaction is aborted)
EndSession(s) == ClosedSession

\* ObjectIds: a fresh id is one no document, committed or written by an open
\* transaction, carries
IdsOf(d) == UNION {DOMAIN d[c] : c \in Collections}

UsedIds ==
    IdsOf(db) \cup UNION {IdsOf(sess[p].view) : p \in {r \in Procs : sess[r].txn = "active"}}

RECURSIVE FreeFrom(_, _)
FreeFrom(i, n) ==
    IF n = 0 THEN <<>>
    ELSE IF i \in UsedIds THEN FreeFrom(i + 1, n)
    ELSE <<i>> \o FreeFrom(i + 1, n - 1)

\* n fresh ids
FreshIds(n) == FreeFrom(1, n)
FreshId == FreshIds(1)[1]

---------------------------------------------------------------------------
(* Errors and responses (src/lib/handlers/error.ts) *)

\* errors is the optional errors property: the field name -> messages record
\* ("fieldErrors") or undefined
NoError == [class |-> "none", statusCode |-> 0, errors |-> "undefined"]
\* new Error(message)
PlainError == [class |-> "Error", statusCode |-> 0, errors |-> "undefined"]
\* new RequestError(statusCode, message): errors is left undefined
RequestError(status) ==
    [class |-> "RequestError", statusCode |-> status, errors |-> "undefined"]
\* new ValidationError(fieldErrors): super(400, message, fieldErrors)
ValidationError == [RequestError(400) EXCEPT !.errors = "fieldErrors"]
UnauthorizedError == RequestError(401)
ForbiddenError == RequestError(403)
NotFoundError == RequestError(404)
\* what the driver throws (duplicate key, write conflict, network, ...): an
\* Error that is no RequestError
DriverError == [class |-> "MongoError", statusCode |-> 0, errors |-> "undefined"]

\* formatReponse: { status, succes: false, error } for a server action,
\* NextResponse.json({ succes: false, error }, { status }) for an API route
FormatReponse(responseType, status, errors) ==
    [kind |-> "error", status |-> status, details |-> errors,
     keys |-> IF responseType = "api" THEN {"succes", "error"}
              ELSE {"status", "succes", "error"}]

\* handleError(error, responseType)
HandleErrorAs(error, responseType) ==
    IF error.class = "RequestError"
    THEN FormatReponse(responseType, error.statusCode, error.errors)
    ELSE IF error.class = "ZodError"
    THEN FormatReponse(responseType, ValidationError.statusCode,
                       ValidationError.errors)
    ELSE FormatReponse(responseType, 500, "undefined")

\* handleError(error): responseType defaults to "server"
HandleError(error) == HandleErrorAs(error, "server")

SuccessResponse(status) ==
    [kind |-> "success", status |-> status, details |-> "none",
     keys |-> {"success", "status", "data"}]
\* createAnswer's success carries no status
SuccessNoStatus ==
    [kind |-> "success", status |-> 0, details |-> "none", keys |-> {"success", "data"}]
Thrown == [kind |-> "thrown", status |-> 0, details |-> "none", keys |-> {}]
NoResponse == [kind |-> "none", status |-> 0, details |-> "none", keys |-> {}]

NoLocals == [op |-> "none"]

Failed(r) == r.kind \in {"error", "thrown"}

---------------------------------------------------------------------------
(* action(): schema validation, then the session check *)

\* AskQuestionSchema: tags has .min(1) and .max(3) entries, each a string of
\* .min(1) and .max(30) characters
SchemaMinTags == 1
SchemaMaxTags == 3
SchemaMinTagLength == 1
SchemaMaxTagLength == 30

\* a tag list check that looks at the number of tags only
TagsValidCountOnly(tags) == Len(tags) >= SchemaMinTags /\ Len(tags) <= SchemaMaxTags

\* AskQuestionSchema on the tag list (titles and contents are drawn valid)
TagsValid(tags) ==
    /\ Len(tags) >= SchemaMinTags
    /\ Len(tags) <= SchemaMaxTags
    /\ \A i \in DOMAIN tags :
          Len(tags[i]) >= SchemaMinTagLength /\ Len(tags[i]) <= SchemaMaxTagLength

\* an ActionGate that skips the session check
ActionGateNoAuth(valid, caller) ==
    IF ~valid THEN ValidationError
    ELSE [class |-> "ok", statusCode |-> 0, errors |-> "undefined"]

\* the Error action() returns, or "ok"
ActionGate(valid, caller) ==
    IF ~valid THEN ValidationError
    ELSE IF caller = NoSession THEN UnauthorizedError
    ELSE [class |-> "ok", statusCode |-> 0, errors |-> "undefined"]

\* action() reaches `await dbConnect()` only when neither check has returned
DbConnects(gate) == gate.class = "ok"

\* a call enters (at most max calls in a run)
Enter(p, max) ==
    /\ pc[p] = "idle"
    /\ ops < max
    /\ ops' = ops + 1
    /\ pre' = [pre EXCEPT ![p] = db]

\* a call returns r (or rejects, when r is Thrown)
Return(p, r) ==
    /\ pc' = [pc EXCEPT ![p] = "done"]
    /\ res' = [res EXCEPT ![p] = r]

\* the caller has taken the response; the request is over
Finish(p) ==
    /\ pc[p] = "done"
    /\ pc' = [pc EXCEPT ![p] = "idle"]
    /\ loc' = [loc EXCEPT ![p] = NoLocals]
    /\ res' = [res EXCEPT ![p] = NoResponse]
    /\ pre' = [pre EXCEPT ![p] = EmptyDb]
    /\ UNCHANGED <<db, sess, ops>>
    /\ UNCHANGED connVars


---------------------------------------------------------------------------
(* dbConnect (src/config/mongoose.ts) *)

MaxConnectCalls == 6

\* what a dbConnect call resolves to: the connection opened by attempt i
Connection(i) == [kind |-> "connection", conn |-> i]

\* what a dbConnect call rejects with: the error of attempt i
ConnectError(i) == [kind |-> "thrown", error |-> i]

\* a dbConnect that starts an attempt whenever no connection is cached
DC_CallUnmemoized(p) ==
    /\ Enter(p, MaxConnectCalls)
    /\ UNCHANGED <<db, sess>>
    /\ IF cached.conn # Null
       THEN /\ loc' = [loc EXCEPT ![p] = [op |-> "dbConnect", awaited |-> Null]]
            /\ Return(p, Connection(cached.conn))
            /\ UNCHANGED connVars
       ELSE /\ promises' = Append(promises, Pending)
            /\ cached' = [cached EXCEPT !.promise = Len(promises) + 1]
            /\ loc' = [loc EXCEPT ![p] =
                  [op |-> "dbConnect", awaited |-> cached'.promise]]
            /\ pc' = [pc EXCEPT ![p] = "dc_await"]
            /\ res' = res

\* if (cached.conn) return cached.conn;
\* if (!cached.promise) cached.promise = mongoose.connect(...).then(...).catch(...);
\* ... await cached.promise
DC_Call(p) ==
    /\ Enter(p, MaxConnectCalls)
    /\ UNCHANGED <<db, sess>>
    /\ IF cached.conn # Null
       THEN /\ loc' = [loc EXCEPT ![p] = [op |-> "dbConnect", awaited |-> Null]]
            /\ Return(p, Connection(cached.conn))
            /\ UNCHANGED connVars
       ELSE /\ IF cached.promise = Null
               THEN /\ promises' = Append(promises, Pending)
                    /\ cached' = [cached EXCEPT !.promise = Len(promises) + 1]
               ELSE UNCHANGED connVars
            /\ loc' = [loc EXCEPT ![p] =
                  [op |-> "dbConnect", awaited |-> cached'.promise]]
            /\ pc' = [pc EXCEPT ![p] = "dc_await"]
            /\ res' = res

\* mongoose.connect settles: .then returns the result, .catch logs and
\* rethrows the error
DC_Settle ==
    /\ \E i \in DOMAIN promises :
          /\ promises[i] = Pending
          /\ \E outcome \in {Fulfilled, Rejected} :
                promises' = [promises EXCEPT ![i] = outcome]
    /\ UNCHANGED <<db, sess, pc, loc, res, pre, ops, cached>>

\* a resumption that forgets a rejected promise, so that a later call retries
DC_ResumeResetting(p) ==
    /\ pc[p] = "dc_await"
    /\ promises[loc[p].awaited] # Pending
    /\ UNCHANGED <<db, sess, pre, ops, promises>>
    /\ loc' = loc
    /\ IF promises[loc[p].awaited] = Fulfilled
       THEN /\ cached' = [cached EXCEPT !.conn = loc[p].awaited]
            /\ Return(p, Connection(loc[p].awaited))
       ELSE /\ cached' = [cached EXCEPT !.promise = Null]
            /\ Return(p, ConnectError(loc[p].awaited))

\* cached.conn = await cached.promise; return cached.conn  (the await throws
\* when the promise is rejected, and nothing is assigned)
DC_Resume(p) ==
    /\ pc[p] = "dc_await"
    /\ promises[loc[p].awaited] # Pending
    /\ UNCHANGED <<db, sess, pre, ops, promises>>
    /\ loc' = loc
    /\ IF promises[loc[p].awaited] = Fulfilled
       THEN /\ cached' = [cached EXCEPT !.conn = loc[p].awaited]
            /\ Return(p, Connection(loc[p].awaited))
       ELSE /\ cached' = cached
            /\ Return(p, ConnectError(loc[p].awaited))

DbConnect(p) == DC_Call(p) \/ DC_Resume(p)

---------------------------------------------------------------------------
(* createAnswer (src/lib/actions/answer.actions.ts) *)

\* a Question document as Model.create stores it; v is Mongoose's version
\* key __v
QuestionDoc(title, content, author, tags, answers) ==
    [title |-> title, content |-> content, author |-> author,
     tags |-> tags, answers |-> answers, v |-> 0]

AnswerDoc(author, question) == [author |-> author, question |-> question]

\* action(), mongoose.startSession(); no transaction is started
CA_Begin(p) ==
    /\ Enter(p, MaxAnswerCalls)
    /\ \E caller \in UserIds \cup {NoSession},
          qid \in (DOMAIN db.questions) \cup {0},
          valid \in BOOLEAN :
        LET gate == ActionGate(valid, caller)
            params == [op |-> "createAnswer", questionId |-> qid, userId |-> caller,
                       valid |-> valid, dbConnected |-> DbConnects(gate),
                       found |-> FALSE, question |-> <<>>, newAnswer |-> 0,
                       error |-> NoError]
        IN /\ loc' = [loc EXCEPT ![p] = params]
           /\ IF gate.class # "ok"
              THEN /\ Return(p, HandleError(gate))
                   /\ UNCHANGED sess
              ELSE /\ sess' = [sess EXCEPT ![p] = StartSession]
                   /\ pc' = [pc EXCEPT ![p] = "ca_find"]
                   /\ UNCHANGED res
    /\ db' = db
    /\ UNCHANGED connVars

\* catch: session.abortTransaction() is not awaited, so its rejection goes
\* nowhere; return handleError(error); finally: session.endSession()
CA_Catch(p, error) ==
    /\ Return(p, HandleError(error))
    /\ loc' = [loc EXCEPT ![p].error = error]
    /\ sess' = [sess EXCEPT ![p] = EndSession(AbortTransaction(@))]

\* const question = await Question.findById(questionId)  (no session)
CA_Find(p) ==
    /\ pc[p] = "ca_find"
    /\ UNCHANGED <<pre, ops>>
    /\ db' = db
    /\ \/ /\ loc[p].questionId \in DOMAIN db.questions
          /\ loc' = [loc EXCEPT ![p].found = TRUE,
                               ![p].question = db.questions[loc[p].questionId]]
          /\ pc' = [pc EXCEPT ![p] = "ca_create"]
          /\ UNCHANGED <<sess, res>>
       \/ /\ loc[p].questionId \notin DOMAIN db.questions
          \* return handleError(new Error("Question not found"))
          /\ Return(p, HandleError(PlainError))
          /\ sess' = [sess EXCEPT ![p] = EndSession(@)]
          /\ loc' = loc
       \/ CA_Catch(p, DriverError)
    /\ UNCHANGED connVars

\* const [newAnswer] = await Answer.create([...], { session })
CA_Create(p) ==
    /\ pc[p] = "ca_create"
    /\ UNCHANGED <<pre, ops>>
    /\ \/ /\ SessionWrite(p,
                Insert(SessionView(sess[p]), "answers", FreshId,
                       AnswerDoc(loc[p].userId, loc[p].questionId)),
                {<<"answers", FreshId>>})
          /\ loc' = [loc EXCEPT ![p].newAnswer = FreshId]
          /\ pc' = [pc EXCEPT ![p] = "ca_save"]
          /\ UNCHANGED res
       \/ /\ CA_Catch(p, DriverError)
          /\ db' = db
    /\ UNCHANGED connVars

\* question.answers += 1 on the document read by CA_Find
BumpAnswers(question) == [question EXCEPT !.answers = @ + 1]

\* question.save({ session }): the modified path is written with $set
SaveAnswers(d, qid, question) ==
    [d EXCEPT !.questions[qid].answers = question.answers]

\* question.answers += 1; await question.save({ session }); return success
CA_Save(p) ==
    /\ pc[p] = "ca_save"
    /\ UNCHANGED <<pre, ops>>
    /\ \/ /\ LET newdb == SaveAnswers(SessionView(sess[p]), loc[p].questionId,
                                     BumpAnswers(loc[p].question))
                 keys == {<<"questions", loc[p].questionId>>}
             IN /\ db' = WrittenDb(p, newdb)
                /\ sess' = [WrittenSess(p, newdb, keys) EXCEPT ![p] = EndSession(@)]
          /\ Return(p, SuccessNoStatus)
          /\ loc' = loc
       \/ /\ CA_Catch(p, DriverError)
          /\ db' = db
    /\ UNCHANGED connVars

CreateAnswer(p) == CA_Begin(p) \/ CA_Find(p) \/ CA_Create(p) \/ CA_Save(p)

\* a store holding one committed question with one tag, as createQuestion leaves it
SeedDb ==
    [EmptyDb EXCEPT
        !.questions = (1 :> QuestionDoc("t1", "c1", "u1", <<2>>, 0)),
        !.tags = (2 :> [name |-> <<"J">>, questions |-> 1]),
        !.tq = (3 :> [tag |-> 2, question |-> 1])]

\* no call in progress
InitCalls ==
    /\ sess = [p \in Procs |-> ClosedSession]
    /\ pc = [p \in Procs |-> "idle"]
    /\ loc = [p \in Procs |-> NoLocals]
    /\ res = [p \in Procs |-> NoResponse]
    /\ ops = 0

\* ... in a process whose first dbConnect has connected
InitCommon ==
    /\ InitCalls
    /\ cached = ConnectedCache
    /\ promises = ConnectedPromises

\* the module has just been evaluated: nothing is cached, no attempt made
InitConnect ==
    /\ InitCalls
    /\ db = EmptyDb
    /\ pre = [p \in Procs |-> EmptyDb]
    /\ cached = EmptyCache
    /\ promises = <<>>

NextConnect == (\E p \in Procs : DbConnect(p) \/ Finish(p)) \/ DC_Settle

\* dbConnect calls in any interleaving, from the evaluation of the module
SpecConnect == InitConnect /\ [][NextConnect]_vars

InitAnswer ==
    /\ InitCommon
    /\ db = SeedDb
    /\ pre = [p \in Procs |-> SeedDb]

NextAnswer == \E p \in Procs : CreateAnswer(p) \/ Finish(p)

\* createAnswer calls in any interleaving
SpecAnswer == InitAnswer /\ [][NextAnswer]_vars

NextAnswerSeq == CreateAnswer(1) \/ Finish(1)

\* createAnswer calls one after the other
SpecAnswerSeq == InitAnswer /\ [][NextAnswerSeq]_vars


---------------------------------------------------------------------------
(* Pieces shared by createQuestion and editQuestion *)

\* a tag of one character more than the schema allows
OverlongTag == [i \in 1..(SchemaMaxTagLength + 1) |-> "j"]

\* tag lists the schema refuses for a reason other than being empty: one tag
\* too many, and a tag that is too long
RefusedTagLists ==
    {[i \in 1..(SchemaMaxTags + 1) |-> <<"j">>], <<OverlongTag>>}

\* the tag lists a caller can send
TagLists ==
    UNION {[1..n -> TagNames] : n \in 0..MaxTagsPerCall} \cup RefusedTagLists

\* a step throws: control goes to the handler's catch block
Throw(p, catch, error) ==
    /\ pc' = [pc EXCEPT ![p] = catch]
    /\ loc' = [loc EXCEPT ![p].error = error]

\* the Tags a filter { name: { $regex: /^tag$/i } } matches in d
MatchingTags(d, tag) ==
    {t \in DOMAIN d.tags : RegexMatchI(d.tags[t].name, tag)}

\* $inc: { questions: n } on the Tags whose ids are in ids
IncTags(d, ids, n) ==
    [d EXCEPT !.tags =
        [t \in DOMAIN @ |->
            IF t \in ids THEN [@[t] EXCEPT !.questions = @ + n] ELSE @[t]]]

\* Tag.findOneAndUpdate(filter, { $setOnInsert: { name: tag }, $inc: { questions: 1 } },
\*                      { session, upsert: true, new: true })
\* hit is the matched Tag, or 0 when the filter matches none and a Tag is inserted
TagUpsert(d, tag, hit, fresh) ==
    IF hit = 0
    THEN [newdb |-> Insert(d, "tags", fresh, [name |-> tag, questions |-> 1]),
          keys |-> {<<"tags", fresh>>, <<"tags.name", tag>>},
          id |-> fresh]
    ELSE [newdb |-> IncTags(d, {hit}, 1),
          keys |-> {<<"tags", hit>>},
          id |-> hit]

\* the documents findOneAndUpdate can pick: any match, or 0 for the upsert
UpsertHits(d, tag) ==
    IF MatchingTags(d, tag) = {} THEN {0} ELSE MatchingTags(d, tag)

\* the range of a sequence
Range(s) == {s[i] : i \in DOMAIN s}

\* TagQuestion.insertMany(rows, { session }): rows[i] is stored under ids[i]
InsertRows(d, rows, ids) ==
    [d EXCEPT !.tq =
        @ @@ [x \in Range(ids) |->
                 rows[CHOOSE i \in DOMAIN ids : ids[i] = x]]]

RowKeys(ids) == {<<"tq", x>> : x \in Range(ids)}

\* catch: await session.abortTransaction(); return handleError(error);
\* finally: session.endSession().  When the driver refuses the abort, the
\* catch block itself throws and the call rejects.
CatchAbort(p) ==
    /\ UNCHANGED <<db, pre, ops>>
    /\ loc' = loc
    /\ sess' = [sess EXCEPT ![p] = EndSession(AbortTransaction(@))]
    /\ IF AbortAccepted(sess[p])
       THEN Return(p, HandleError(loc[p].error))
       ELSE Return(p, Thrown)

---------------------------------------------------------------------------
(* createQuestion (src/lib/actions/question.action.ts) *)

\* the callers and parameters of the calls that are run concurrently
RaceCallers == {"u1"}
RaceTitles == Titles
RaceContents == {"c1"}
RaceTagLists == {<<n>> : n \in TagNames}

\* action(), mongoose.startSession(), session.startTransaction()
CQ_Enter(p, callers, titles, contents, tagLists) ==
    /\ Enter(p, MaxQuestionCalls)
    /\ \E caller \in callers,
          title \in titles, content \in contents, tags \in tagLists :
        LET gate == ActionGate(TagsValid(tags), caller)
            params == [op |-> "createQuestion", userId |-> caller,
                       valid |-> TagsValid(tags), dbConnected |-> DbConnects(gate),
                       title |-> title, content |-> content, tags |-> tags,
                       question |-> 0, i |-> 1, tagIds |-> <<>>,
                       rows |-> <<>>, error |-> NoError]
        IN /\ loc' = [loc EXCEPT ![p] = params]
           /\ IF gate.class # "ok"
              THEN /\ Return(p, HandleError(gate))
                   /\ UNCHANGED sess
              ELSE /\ sess' = [sess EXCEPT ![p] = StartTransaction(StartSession)]
                   /\ pc' = [pc EXCEPT ![p] = "cq_create"]
                   /\ UNCHANGED res
    /\ db' = db
    /\ UNCHANGED connVars

\* a call with any caller and any of the parameters
CQ_Begin(p) == CQ_Enter(p, UserIds \cup {NoSession}, Titles, Contents, TagLists)

\* a call by the author with one tag that is J, j or js
CQ_BeginOneTag(p) == CQ_Enter(p, RaceCallers, RaceTitles, RaceContents, RaceTagLists)

\* const [question] = await Question.create([{ title, content, author }], { session })
CQ_Create(p) ==
    /\ pc[p] = "cq_create"
    /\ UNCHANGED <<pre, ops, res>>
    /\ \/ /\ SessionWrite(p,
                Insert(SessionView(sess[p]), "questions", FreshId,
                       QuestionDoc(loc[p].title, loc[p].content,
                                   loc[p].userId, <<>>, 0)),
                {<<"questions", FreshId>>})
          /\ loc' = [loc EXCEPT ![p].question = FreshId]
          /\ pc' = [pc EXCEPT ![p] = "cq_tags"]
       \/ /\ Throw(p, "cq_catch", DriverError)
          /\ UNCHANGED <<db, sess>>
    /\ UNCHANGED connVars

\* one turn of  for (const tag of tags) { await Tag.findOneAndUpdate(...) ... }
CQ_Tag(p) ==
    /\ pc[p] = "cq_tags"
    /\ UNCHANGED <<pre, ops, res>>
    /\ LET tag == loc[p].tags[loc[p].i]
           d == SessionView(sess[p])
       IN \/ \E hit \in UpsertHits(d, tag) :
                LET u == TagUpsert(d, tag, hit, FreshId)
                IN /\ ~Conflict(p, u.keys)
                   /\ SessionWrite(p, u.newdb, u.keys)
                   /\ loc' = [loc EXCEPT
                         ![p].tagIds = Append(@, u.id),
                         ![p].rows = Append(@, [question |-> loc[p].question,
                                                tag |-> u.id]),
                         ![p].i = @ + 1]
                   /\ pc' = [pc EXCEPT ![p] =
                         IF loc[p].i = Len(loc[p].tags) THEN "cq_rows" ELSE "cq_tags"]
          \/ /\ Throw(p, "cq_catch", DriverError)
             /\ UNCHANGED <<db, sess>>
    /\ UNCHANGED connVars

\* await TagQuestion.insertMany(tagQuestionDocuments, { session })
CQ_Rows(p) ==
    /\ pc[p] = "cq_rows"
    /\ UNCHANGED <<pre, ops, res>>
    /\ \/ /\ SessionWrite(p,
                InsertRows(SessionView(sess[p]), loc[p].rows, FreshIds(Len(loc[p].rows))),
                RowKeys(FreshIds(Len(loc[p].rows))))
          /\ pc' = [pc EXCEPT ![p] = "cq_push"]
          /\ loc' = loc
       \/ /\ Throw(p, "cq_catch", DriverError)
          /\ UNCHANGED <<db, sess>>
    /\ UNCHANGED connVars

\* $push: { tags: { $each: tagIds } }
PushTags(d, qid, tagIds) == [d EXCEPT !.questions[qid].tags = @ \o tagIds]

\* await Question.findByIdAndUpdate(question._id, { $push: ... }, { session })
CQ_Push(p) ==
    /\ pc[p] = "cq_push"
    /\ UNCHANGED <<pre, ops, res>>
    /\ \/ /\ ~Conflict(p, {<<"questions", loc[p].question>>})
          /\ SessionWrite(p,
                PushTags(SessionView(sess[p]), loc[p].question, loc[p].tagIds),
                {<<"questions", loc[p].question>>})
          /\ pc' = [pc EXCEPT ![p] = "cq_commit"]
          /\ loc' = loc
       \/ /\ Throw(p, "cq_catch", DriverError)
          /\ UNCHANGED <<db, sess>>
    /\ UNCHANGED connVars

\* await session.commitTransaction(); return { success: true, status: 201, data }
CQ_Commit(p) ==
    /\ pc[p] = "cq_commit"
    /\ UNCHANGED <<pre, ops>>
    /\ \/ /\ db' = CommitDb(p)
          /\ sess' = [CommitSess(p) EXCEPT ![p] = EndSession(@)]
          /\ Return(p, SuccessResponse(201))
          /\ loc' = loc
       \/ /\ CommitFail(p)
          /\ Throw(p, "cq_catch", DriverError)
          /\ UNCHANGED res
    /\ UNCHANGED connVars

CQ_Catch(p) ==
    /\ pc[p] = "cq_catch"
    /\ CatchAbort(p)
    /\ UNCHANGED connVars

CreateQuestion(p) ==
    \/ CQ_Begin(p) \/ CQ_Create(p) \/ CQ_Tag(p) \/ CQ_Rows(p)
    \/ CQ_Push(p) \/ CQ_Commit(p) \/ CQ_Catch(p)


---------------------------------------------------------------------------
(* editQuestion (src/lib/actions/question.action.ts) *)

\* .populate("tags"): the Tag documents the question's tag list refers to
Populate(d, tagIds) ==
    [i \in 1..Len(tagIds) |-> [id |-> tagIds[i], name |-> d.tags[tagIds[i]].name]]

\* a delta that adds every requested name
TagsToAddAll(tags, current) == tags

\* tags.filter((tag) => !question.tags.some((t) =>
\*     t.name.toLowerCase().includes(tag.toLowerCase())))
TagsToAdd(tags, current) ==
    SelectSeq(tags, LAMBDA tag :
        ~\E i \in DOMAIN current :
            Includes(ToLowerCase(current[i].name), ToLowerCase(tag)))

\* question.tags.filter((tag) => !tags.some((t) =>
\*     t.toLowerCase() === tag.name.toLowerCase()))
TagsToRemove(tags, current) ==
    SelectSeq(current, LAMBDA cur :
        ~\E i \in DOMAIN tags : ToLowerCase(tags[i]) = ToLowerCase(cur.name))

\* action(), mongoose.startSession(), session.startTransaction()
EQ_Enter(p, callers, titles, contents, tagLists) ==
    /\ Enter(p, MaxQuestionCalls)
    /\ \E caller \in callers,
          qid \in (DOMAIN db.questions) \cup {0},
          title \in titles, content \in contents, tags \in tagLists :
        LET gate == ActionGate(TagsValid(tags), caller)
            params == [op |-> "editQuestion", userId |-> caller,
                       valid |-> TagsValid(tags), dbConnected |-> DbConnects(gate),
                       questionId |-> qid,
                       title |-> title, content |-> content, tags |-> tags,
                       i |-> 1, current |-> <<>>, qtags |-> <<>>, v |-> 0,
                       toAdd |-> <<>>, toRemove |-> {}, reassigned |-> FALSE,
                       pushed |-> <<>>, rows |-> <<>>, error |-> NoError]
        IN /\ loc' = [loc EXCEPT ![p] = params]
           /\ IF gate.class # "ok"
              THEN /\ Return(p, HandleError(gate))
                   /\ UNCHANGED sess
              ELSE /\ sess' = [sess EXCEPT ![p] = StartTransaction(StartSession)]
                   /\ pc' = [pc EXCEPT ![p] = "eq_find"]
                   /\ UNCHANGED res
    /\ db' = db
    /\ UNCHANGED connVars

EQ_Begin(p) == EQ_Enter(p, UserIds \cup {NoSession}, Titles, Contents, TagLists)

EQ_BeginOneTag(p) == EQ_Enter(p, RaceCallers, RaceTitles, RaceContents, RaceTagLists)

\* where the handler goes once the title/content save is behind it
AfterSave(l) ==
    IF Len(l.toAdd) > 0 THEN "eq_add"
    ELSE IF l.toRemove # {} THEN "eq_dec"
    ELSE "eq_save"

\* where the handler goes once the tagsToAdd loop is behind it
AfterAdd(l) ==
    IF l.toRemove # {} THEN "eq_dec"
    ELSE IF Len(l.rows) > 0 THEN "eq_rows"
    ELSE "eq_save"

\* const question = await Question.findById(questionId).populate("tags")
\* (no session: the committed documents are read), then the two guards and
\* the tag delta, which read only the populated document
EQ_Find(p) ==
    /\ pc[p] = "eq_find"
    /\ UNCHANGED <<db, sess, pre, ops, res>>
    /\ \/ /\ loc[p].questionId \notin DOMAIN db.questions
          \* throw new Error("Question not found")
          /\ Throw(p, "eq_catch", PlainError)
       \/ /\ loc[p].questionId \in DOMAIN db.questions
          /\ db.questions[loc[p].questionId].author # loc[p].userId
          \* throw new Error("You are not authorized to edit this question")
          /\ Throw(p, "eq_catch", PlainError)
       \/ /\ loc[p].questionId \in DOMAIN db.questions
          /\ db.questions[loc[p].questionId].author = loc[p].userId
          /\ LET q == db.questions[loc[p].questionId]
                 current == Populate(db, q.tags)
                 l == [loc[p] EXCEPT
                          !.current = current,
                          !.qtags = q.tags,
                          !.v = q.v,
                          !.toAdd = TagsToAdd(loc[p].tags, current),
                          !.toRemove =
                              {c.id : c \in Range(TagsToRemove(loc[p].tags, current))}]
             IN /\ loc' = [loc EXCEPT ![p] = l]
                /\ pc' = [pc EXCEPT ![p] =
                      IF q.title # l.title \/ q.content # l.content
                      THEN "eq_title" ELSE AfterSave(l)]
       \/ Throw(p, "eq_catch", DriverError)
    /\ UNCHANGED connVars

\* question.title = title; question.content = content; question.save({ session })
SaveTitle(d, qid, title, content) ==
    [d EXCEPT !.questions[qid].title = title, !.questions[qid].content = content]

EQ_Title(p) ==
    /\ pc[p] = "eq_title"
    /\ UNCHANGED <<pre, ops, res>>
    /\ \/ /\ ~Conflict(p, {<<"questions", loc[p].questionId>>})
          /\ SessionWrite(p,
                SaveTitle(SessionView(sess[p]), loc[p].questionId,
                          loc[p].title, loc[p].content),
                {<<"questions", loc[p].questionId>>})
          /\ pc' = [pc EXCEPT ![p] = AfterSave(loc[p])]
          /\ loc' = loc
       \/ /\ Throw(p, "eq_catch", DriverError)
          /\ UNCHANGED <<db, sess>>
    /\ UNCHANGED connVars

\* one turn of  for (const tag of tagsToAdd) { await Tag.findOneAndUpdate(...) ... }
EQ_Add(p) ==
    /\ pc[p] = "eq_add"
    /\ UNCHANGED <<pre, ops, res>>
    /\ LET tag == loc[p].toAdd[loc[p].i]
           d == SessionView(sess[p])
       IN \/ \E hit \in UpsertHits(d, tag) :
                LET u == TagUpsert(d, tag, hit, FreshId)
                    l == [loc[p] EXCEPT
                            !.rows = Append(@, [tag |-> u.id,
                                                question |-> loc[p].questionId]),
                            !.qtags = Append(@, u.id),
                            !.pushed = Append(@, u.id),
                            !.i = @ + 1]
                IN /\ ~Conflict(p, u.keys)
                   /\ SessionWrite(p, u.newdb, u.keys)
                   /\ loc' = [loc EXCEPT ![p] = l]
                   /\ pc' = [pc EXCEPT ![p] =
                         IF loc[p].i = Len(loc[p].toAdd) THEN AfterAdd(l) ELSE "eq_add"]
          \/ /\ Throw(p, "eq_catch", DriverError)
             /\ UNCHANGED <<db, sess>>
    /\ UNCHANGED connVars

RemovedTagKeys(p) == {<<"tags", t>> : t \in loc[p].toRemove}

\* the same update issued without { session }
DecrementRemovedTagsNoSession(p) ==
    DirectWrite(p, IncTags(db, loc[p].toRemove, -1), RemovedTagKeys(p))

\* Tag.updateMany({ _id: { $in: tagIdsToRemove } }, { $inc: { questions: -1 } }, { session })
DecrementRemovedTags(p) ==
    SessionWrite(p, IncTags(SessionView(sess[p]), loc[p].toRemove, -1),
                 RemovedTagKeys(p))

\* await Tag.updateMany(...)
EQ_Dec(p) ==
    /\ pc[p] = "eq_dec"
    /\ UNCHANGED <<pre, ops, res>>
    /\ \/ /\ ~Conflict(p, RemovedTagKeys(p))
          /\ DecrementRemovedTags(p)
          /\ pc' = [pc EXCEPT ![p] = "eq_del"]
          /\ loc' = loc
       \/ /\ Throw(p, "eq_catch", DriverError)
          /\ UNCHANGED <<db, sess>>
    /\ UNCHANGED connVars

\* the TagQuestion rows { question: qid, tag: { $in: tagIds } } matches in d
MatchingRows(d, qid, tagIds) ==
    {r \in DOMAIN d.tq : d.tq[r].question = qid /\ d.tq[r].tag \in tagIds}

\* await TagQuestion.deleteMany({ question, tag: { $in: tagIdsToRemove } }, { session });
\* question.tags = question.tags.filter((tag) => !tagIdsToRemove.some(...))
EQ_Del(p) ==
    /\ pc[p] = "eq_del"
    /\ UNCHANGED <<pre, ops, res>>
    /\ LET d == SessionView(sess[p])
           gone == MatchingRows(d, loc[p].questionId, loc[p].toRemove)
           keys == {<<"tq", r>> : r \in gone}
           l == [loc[p] EXCEPT
                    !.qtags = SelectSeq(@, LAMBDA t : t \notin loc[p].toRemove),
                    !.reassigned = TRUE]
       IN \/ /\ ~Conflict(p, keys)
             /\ SessionWrite(p, Delete(d, "tq", gone), keys)
             /\ pc' = [pc EXCEPT ![p] =
                   IF Len(l.rows) > 0 THEN "eq_rows" ELSE "eq_save"]
             /\ loc' = [loc EXCEPT ![p] = l]
          \/ /\ Throw(p, "eq_catch", DriverError)
             /\ UNCHANGED <<db, sess>>
    /\ UNCHANGED connVars

\* await TagQuestion.insertMany(newTagsDocs, { session })
EQ_Rows(p) ==
    /\ pc[p] = "eq_rows"
    /\ UNCHANGED <<pre, ops, res>>
    /\ \/ /\ SessionWrite(p,
                InsertRows(SessionView(sess[p]), loc[p].rows, FreshIds(Len(loc[p].rows))),
                RowKeys(FreshIds(Len(loc[p].rows))))
          /\ pc' = [pc EXCEPT ![p] = "eq_save"]
          /\ loc' = loc
       \/ /\ Throw(p, "eq_catch", DriverError)
          /\ UNCHANGED <<db, sess>>
    /\ UNCHANGED connVars

\* what Mongoose's save throws when the document it would update no longer
\* carries the version it was loaded with
VersionError == [class |-> "VersionError", statusCode |-> 0, errors |-> "undefined"]

\* question.save({ session }) writes the tag list when it was modified: the
\* whole array when it was reassigned, the pushed ids otherwise; either way
\* the version key is incremented
SaveTags(d, l) ==
    IF l.reassigned
    THEN [d EXCEPT !.questions[l.questionId].tags = l.qtags,
                   !.questions[l.questionId].v = @ + 1]
    ELSE [PushTags(d, l.questionId, l.pushed) EXCEPT
             !.questions[l.questionId].v = @ + 1]

TagsModified(l) == l.reassigned \/ Len(l.pushed) > 0

\* a save that never looks at the version
VersionUnchecked(d, l) == TRUE

\* a save that sets a whole array is conditioned on the version the document
\* was loaded with ({ _id, __v }); a save that only pushes is not
VersionMatches(d, l) ==
    l.reassigned => d.questions[l.questionId].v = l.v

\* await question.save({ session })
EQ_Save(p) ==
    /\ pc[p] = "eq_save"
    /\ UNCHANGED <<pre, ops, res>>
    /\ \/ /\ IF TagsModified(loc[p])
             THEN /\ ~Conflict(p, {<<"questions", loc[p].questionId>>})
                  /\ VersionMatches(SessionView(sess[p]), loc[p])
                  /\ SessionWrite(p, SaveTags(SessionView(sess[p]), loc[p]),
                                  {<<"questions", loc[p].questionId>>})
             ELSE UNCHANGED <<db, sess>>
          /\ pc' = [pc EXCEPT ![p] = "eq_commit"]
          /\ loc' = loc
       \/ /\ Throw(p, "eq_catch",
                   IF TagsModified(loc[p])
                      /\ ~VersionMatches(SessionView(sess[p]), loc[p])
                   THEN VersionError ELSE DriverError)
          /\ UNCHANGED <<db, sess>>
    /\ UNCHANGED connVars

\* await session.commitTransaction(); return { success: true, status: 200, data }
EQ_Commit(p) ==
    /\ pc[p] = "eq_commit"
    /\ UNCHANGED <<pre, ops>>
    /\ \/ /\ db' = CommitDb(p)
          /\ sess' = [CommitSess(p) EXCEPT ![p] = EndSession(@)]
          /\ Return(p, SuccessResponse(200))
          /\ loc' = loc
       \/ /\ CommitFail(p)
          /\ Throw(p, "eq_catch", DriverError)
          /\ UNCHANGED res
    /\ UNCHANGED connVars

EQ_Catch(p) ==
    /\ pc[p] = "eq_catch"
    /\ CatchAbort(p)
    /\ UNCHANGED connVars

EditQuestion(p) ==
    \/ EQ_Begin(p) \/ EQ_Find(p) \/ EQ_Title(p) \/ EQ_Add(p) \/ EQ_Dec(p)
    \/ EQ_Del(p) \/ EQ_Rows(p) \/ EQ_Save(p) \/ EQ_Commit(p) \/ EQ_Catch(p)

---------------------------------------------------------------------------
(* getQuestion (src/lib/actions/question.action.ts) *)

\* action({ params, schema: GetQuestionSchema, isAuthorize: true })
GQ_Begin(p) ==
    /\ Enter(p, MaxQuestionCalls)
    /\ \E caller \in UserIds \cup {NoSession},
          qid \in (DOMAIN db.questions) \cup {0},
          valid \in BOOLEAN :
        LET gate == ActionGate(valid, caller)
            params == [op |-> "getQuestion", questionId |-> qid, userId |-> caller,
                       valid |-> valid, dbConnected |-> DbConnects(gate),
                       error |-> NoError]
        IN /\ loc' = [loc EXCEPT ![p] = params]
           /\ IF gate.class # "ok"
              THEN Return(p, HandleError(gate))
              ELSE pc' = [pc EXCEPT ![p] = "gq_find"] /\ res' = res
    /\ UNCHANGED <<db, sess>>
    /\ UNCHANGED connVars

\* const question = await Question.findById(questionId).populate(...);
\* if (!question) throw new Error("Question not found"); return { success, status: 200, data }
GQ_Find(p) ==
    /\ pc[p] = "gq_find"
    /\ UNCHANGED <<db, sess, pre, ops>>
    /\ \/ IF loc[p].questionId \in DOMAIN db.questions
          THEN /\ loc' = loc
               /\ Return(p, SuccessResponse(200))
          ELSE /\ loc' = [loc EXCEPT ![p].error = PlainError]
               /\ Return(p, HandleError(PlainError))
       \/ /\ loc' = [loc EXCEPT ![p].error = DriverError]
          /\ Return(p, HandleError(DriverError))
    /\ UNCHANGED connVars

GetQuestion(p) == GQ_Begin(p) \/ GQ_Find(p)

---------------------------------------------------------------------------
(* POST /api/auth/signin-with-oauth (src/app/api/auth/signin-with-oauth/route.ts) *)

Providers == {"github", "google"}
ProviderAccountIds == {"a1"}
Emails == {"e1", "e2"}
DisplayNames == {"n1", "n2"}
Images == {"i1", "i2"}
Usernames == {<<"J">>, <<"j">>}

\* slugify(username, { lower: true, strict: true, trim: true }) on a username
\* of letters
Slugify(username) == ToLowerCase(username)

\* no document (findOne returning null)
NoDoc == <<>>

UserDoc(name, username, email, image) ==
    [name |-> name, username |-> username, email |-> email, image |-> image]

AccountDoc(userId, name, image, provider, providerAccountId) ==
    [userId |-> userId, name |-> name, image |-> image,
     provider |-> provider, providerAccountId |-> providerAccountId]

\* User.findOne({ email }): the matching user ids
UsersByEmail(d, email) == {u \in DOMAIN d.users : d.users[u].email = email}

\* Account.findOne({ userId, provider, providerAccountId }): the matching ids
AccountsOf(d, userId, provider, providerAccountId) ==
    {a \in DOMAIN d.accounts :
        /\ d.accounts[a].userId = userId
        /\ d.accounts[a].provider = provider
        /\ d.accounts[a].providerAccountId = providerAccountId}

\* the unique indexes of the User collection refuse a second document with
\* the same email or the same username
UserDuplicate(d, doc) ==
    \E u \in DOMAIN d.users :
        d.users[u].email = doc.email \/ d.users[u].username = doc.username

UserKeys(id, doc) ==
    {<<"users", id>>, <<"users.email", doc.email>>,
     <<"users.username", doc.username>>}

\* request.json(), dbConnect(), startSession(), startTransaction(); then, in
\* the try block, SignInWithOAuthSchema.safeParse and slugify
OA_Begin(p) ==
    /\ Enter(p, MaxOAuthCalls)
    /\ \E provider \in Providers, pid \in ProviderAccountIds,
          name \in DisplayNames, username \in Usernames,
          email \in Emails, image \in Images, valid \in BOOLEAN :
        LET params == [op |-> "oauth", provider |-> provider,
                       providerAccountId |-> pid, name |-> name,
                       username |-> Slugify(username), email |-> email,
                       image |-> image, existingUser |-> 0,
                       existingDoc |-> NoDoc, userUpdates |-> {},
                       userWritten |-> {}, accountFound |-> FALSE,
                       accountCreated |-> 0,
                       error |-> IF valid THEN NoError ELSE ValidationError]
        IN /\ loc' = [loc EXCEPT ![p] = params]
           /\ pc' = [pc EXCEPT ![p] = IF valid THEN "oa_finduser" ELSE "oa_catch"]
    /\ sess' = [sess EXCEPT ![p] = StartTransaction(StartSession)]
    /\ UNCHANGED <<db, res>>
    /\ UNCHANGED connVars

\* an updatedData that names both fields whatever the stored values are
UpdatedDataAll(user, name, image) == {"name", "image"}

\* const updatedData = {}; if (existingUser.name !== name) ...; if (... image) ...
UpdatedData(user, name, image) ==
    (IF user.name # name THEN {"name"} ELSE {})
        \cup (IF user.image # image THEN {"image"} ELSE {})

\* let existingUser = await User.findOne({ email }).session(session)
OA_FindUser(p) ==
    /\ pc[p] = "oa_finduser"
    /\ UNCHANGED <<pre, ops, res>>
    /\ \/ /\ SessionRead(p)
          /\ LET d == SessionView(Touch(sess[p]))
                 found == UsersByEmail(d, loc[p].email)
             IN IF found = {}
                THEN /\ loc' = loc
                     /\ pc' = [pc EXCEPT ![p] = "oa_createuser"]
                ELSE \E u \in found :
                        LET upd == UpdatedData(d.users[u], loc[p].name, loc[p].image)
                        IN /\ loc' = [loc EXCEPT ![p].existingUser = u,
                                                 ![p].existingDoc = d.users[u],
                                                 ![p].userUpdates = upd]
                           /\ pc' = [pc EXCEPT ![p] =
                                 IF upd # {} THEN "oa_updateuser" ELSE "oa_findaccount"]
       \/ /\ Throw(p, "oa_catch", DriverError)
          /\ UNCHANGED <<db, sess>>
    /\ UNCHANGED connVars

\* [existingUser] = await User.create([{ name, username, email, image }], { session })
OA_CreateUser(p) ==
    /\ pc[p] = "oa_createuser"
    /\ UNCHANGED <<pre, ops, res>>
    /\ LET d == SessionView(sess[p])
           doc == UserDoc(loc[p].name, loc[p].username, loc[p].email, loc[p].image)
           keys == UserKeys(FreshId, doc)
       IN \/ /\ ~UserDuplicate(d, doc)
             /\ ~Conflict(p, keys)
             /\ SessionWrite(p, Insert(d, "users", FreshId, doc), keys)
             /\ loc' = [loc EXCEPT ![p].existingUser = FreshId]
             /\ pc' = [pc EXCEPT ![p] = "oa_findaccount"]
          \/ /\ Throw(p, "oa_catch", DriverError)
             /\ UNCHANGED <<db, sess>>
    /\ UNCHANGED connVars

\* { $set: updatedData }
SetUserFields(d, u, fields, name, image) ==
    [d EXCEPT !.users[u] =
        [@ EXCEPT !.name = IF "name" \in fields THEN name ELSE @,
                  !.image = IF "image" \in fields THEN image ELSE @]]

\* await User.updateOne({ _id: existingUser._id }, { $set: updatedData }).session(session)
OA_UpdateUser(p) ==
    /\ pc[p] = "oa_updateuser"
    /\ UNCHANGED <<pre, ops, res>>
    /\ LET keys == {<<"users", loc[p].existingUser>>}
       IN \/ /\ ~Conflict(p, keys)
             /\ SessionWrite(p,
                   SetUserFields(SessionView(sess[p]), loc[p].existingUser,
                                 loc[p].userUpdates, loc[p].name, loc[p].image),
                   keys)
             /\ loc' = [loc EXCEPT ![p].userWritten = loc[p].userUpdates]
             /\ pc' = [pc EXCEPT ![p] = "oa_findaccount"]
          \/ /\ Throw(p, "oa_catch", DriverError)
             /\ UNCHANGED <<db, sess>>
    /\ UNCHANGED connVars

\* a lookup that refreshes the display fields of the Account it finds
OA_FindAccountOverwrite(p) ==
    /\ pc[p] = "oa_findaccount"
    /\ UNCHANGED <<pre, ops, res>>
    /\ LET d == SessionView(Touch(sess[p]))
           found == AccountsOf(d, loc[p].existingUser,
                               loc[p].provider, loc[p].providerAccountId)
       IN /\ loc' = [loc EXCEPT ![p].accountFound = (found # {})]
          /\ pc' = [pc EXCEPT ![p] =
                IF found = {} THEN "oa_createaccount" ELSE "oa_commit"]
          /\ IF found = {}
             THEN SessionRead(p)
             ELSE \E a \in found :
                     SessionWrite(p,
                        [d EXCEPT !.accounts[a].name = loc[p].name,
                                  !.accounts[a].image = loc[p].image],
                        {<<"accounts", a>>})
    /\ UNCHANGED connVars

\* const existingAccount = await Account.findOne({ userId, provider,
\*     providerAccountId }).session(session)
OA_FindAccount(p) ==
    /\ pc[p] = "oa_findaccount"
    /\ UNCHANGED <<pre, ops, res>>
    /\ \/ /\ SessionRead(p)
          /\ LET found == AccountsOf(SessionView(sess[p]), loc[p].existingUser,
                                     loc[p].provider, loc[p].providerAccountId)
             IN /\ loc' = [loc EXCEPT ![p].accountFound = (found # {})]
                /\ pc' = [pc EXCEPT ![p] =
                      IF found = {} THEN "oa_createaccount" ELSE "oa_commit"]
       \/ /\ Throw(p, "oa_catch", DriverError)
          /\ UNCHANGED <<db, sess>>
    /\ UNCHANGED connVars

\* await Account.create([{ userId, name, image, provider, providerAccountId }], { session })
OA_CreateAccount(p) ==
    /\ pc[p] = "oa_createaccount"
    /\ UNCHANGED <<pre, ops, res>>
    /\ \/ /\ SessionWrite(p,
                Insert(SessionView(sess[p]), "accounts", FreshId,
                       AccountDoc(loc[p].existingUser, loc[p].name, loc[p].image,
                                  loc[p].provider, loc[p].providerAccountId)),
                {<<"accounts", FreshId>>})
          /\ loc' = [loc EXCEPT ![p].accountCreated = FreshId]
          /\ pc' = [pc EXCEPT ![p] = "oa_commit"]
       \/ /\ Throw(p, "oa_catch", DriverError)
          /\ UNCHANGED <<db, sess>>
    /\ UNCHANGED connVars

\* NextResponse.json({ success: true })
ApiSuccess ==
    [kind |-> "success", status |-> 200, details |-> "none", keys |-> {"success"}]

\* await session.commitTransaction(); return NextResponse.json({ success: true })
OA_Commit(p) ==
    /\ pc[p] = "oa_commit"
    /\ UNCHANGED <<pre, ops>>
    /\ \/ /\ db' = CommitDb(p)
          /\ sess' = [CommitSess(p) EXCEPT ![p] = EndSession(@)]
          /\ Return(p, ApiSuccess)
          /\ loc' = loc
       \/ /\ CommitFail(p)
          /\ Throw(p, "oa_catch", DriverError)
          /\ UNCHANGED res
    /\ UNCHANGED connVars

\* catch: await session.abortTransaction(); return handleError(error, "api");
\* finally: session.endSession()
OA_Catch(p) ==
    /\ pc[p] = "oa_catch"
    /\ UNCHANGED <<db, pre, ops>>
    /\ loc' = loc
    /\ sess' = [sess EXCEPT ![p] = EndSession(AbortTransaction(@))]
    /\ IF AbortAccepted(sess[p])
       THEN Return(p, HandleErrorAs(loc[p].error, "api"))
       ELSE Return(p, Thrown)
    /\ UNCHANGED connVars

SignInWithOAuth(p) ==
    \/ OA_Begin(p) \/ OA_FindUser(p) \/ OA_CreateUser(p) \/ OA_UpdateUser(p)
    \/ OA_FindAccount(p) \/ OA_CreateAccount(p) \/ OA_Commit(p) \/ OA_Catch(p)

InitOAuth ==
    /\ InitCommon
    /\ db = EmptyDb
    /\ pre = [p \in Procs |-> EmptyDb]

NextOAuth == \E p \in Procs : SignInWithOAuth(p) \/ Finish(p)

\* sign-in requests in any interleaving, from an empty store
SpecOAuth == InitOAuth /\ [][NextOAuth]_vars

---------------------------------------------------------------------------
(* POST /api/accounts (src/app/api/accounts/route.ts) *)

MaxAccountCalls == 2

\* NextResponse.json({ success: true, data: newAccount }, { status: 201 })
ApiCreated ==
    [kind |-> "success", status |-> 201, details |-> "none",
     keys |-> {"success", "data"}]

\* what AccountSchema.parse throws on a body that does not fit
ZodError == [class |-> "ZodError", statusCode |-> 0, errors |-> "undefined"]

\* Account.findOne({ provider, providerAccountId }): the matching ids
AccountsByPair(d, provider, providerAccountId) ==
    {a \in DOMAIN d.accounts :
        /\ d.accounts[a].provider = provider
        /\ d.accounts[a].providerAccountId = providerAccountId}

\* await dbConnect(); await request.json(); AccountSchema.parse(body).  The
\* userId of the body is any non-empty string: that of a stored User or not.
PA_Begin(p) ==
    /\ Enter(p, MaxAccountCalls)
    /\ \E provider \in Providers, pid \in ProviderAccountIds,
          userId \in {0} \cup DOMAIN db.users, valid \in BOOLEAN :
        /\ loc' = [loc EXCEPT ![p] =
              [op |-> "postAccount", provider |-> provider,
               providerAccountId |-> pid, name |-> "n1", image |-> "i1",
               userId |-> userId, accountCreated |-> 0,
               error |-> IF valid THEN NoError ELSE ZodError]]
        /\ IF valid
           THEN pc' = [pc EXCEPT ![p] = "pa_find"] /\ res' = res
           ELSE Return(p, HandleErrorAs(ZodError, "api"))
    /\ UNCHANGED <<db, sess>>
    /\ UNCHANGED connVars

\* const existingAccount = await Account.findOne({ provider, providerAccountId });
\* if (existingAccount) throw new ForbiddenError(...)
PA_Find(p) ==
    /\ pc[p] = "pa_find"
    /\ UNCHANGED <<db, sess, pre, ops>>
    /\ \/ IF AccountsByPair(db, loc[p].provider, loc[p].providerAccountId) # {}
          THEN /\ loc' = [loc EXCEPT ![p].error = ForbiddenError]
               /\ Return(p, HandleErrorAs(ForbiddenError, "api"))
          ELSE /\ loc' = loc
               /\ pc' = [pc EXCEPT ![p] = "pa_create"]
               /\ res' = res
       \/ /\ loc' = [loc EXCEPT ![p].error = DriverError]
          /\ Return(p, HandleErrorAs(DriverError, "api"))
    /\ UNCHANGED connVars

\* const newAccount = await Account.create(validatedData); return 201
PA_Create(p) ==
    /\ pc[p] = "pa_create"
    /\ UNCHANGED <<pre, ops>>
    /\ \/ /\ DirectWrite(p,
                Insert(db, "accounts", FreshId,
                       AccountDoc(loc[p].userId, loc[p].name, loc[p].image,
                                  loc[p].provider, loc[p].providerAccountId)),
                {<<"accounts", FreshId>>})
          /\ loc' = [loc EXCEPT ![p].accountCreated = FreshId]
          /\ Return(p, ApiCreated)
       \/ /\ loc' = [loc EXCEPT ![p].error = DriverError]
          /\ Return(p, HandleErrorAs(DriverError, "api"))
          /\ UNCHANGED <<db, sess>>
    /\ UNCHANGED connVars

PostAccount(p) == PA_Begin(p) \/ PA_Find(p) \/ PA_Create(p)

NextAccounts == \E p \in Procs : PostAccount(p) \/ SignInWithOAuth(p) \/ Finish(p)

\* POST /api/accounts requests and OAuth sign-ins in any interleaving, from an
\* empty store
SpecAccounts == InitOAuth /\ [][NextAccounts]_vars

---------------------------------------------------------------------------
(* getAnswers (src/lib/actions/answer.actions.ts) *)

MaxReadCalls == 4
MaxPage == 3
MaxPageSize == 2

\* the Answer documents of d for question q
AnswersOf(d, q) == {a \in DOMAIN d.answers : d.answers[a].question = q}

\* .sort({ createdAt: 1 }): ids grow with the time of creation
RECURSIVE Ascending(_)
Ascending(S) ==
    IF S = {} THEN <<>>
    ELSE LET first == CHOOSE x \in S : \A y \in S : x <= y
         IN <<first>> \o Ascending(S \ {first})

\* .sort({ createdAt: -1 })
Descending(S) ==
    LET asc == Ascending(S) IN [i \in 1..Len(asc) |-> asc[Len(asc) + 1 - i]]

\* .skip(skip).limit(limit)
SkipLimit(s, skip, limit) ==
    SubSeq(s, skip + 1, IF skip + limit < Len(s) THEN skip + limit ELSE Len(s))

\* getQuestions: const isNext = totalQuestions > skip + questions.length
IsNextOfGetQuestions(total, skip, returned) == total > skip + returned

\* getAnswers: const isNext = totalAnswers > skip * answers.length
IsNextOfGetAnswers(total, skip, returned) == total > skip * returned

\* { success: true, data: { answers, isNext, totalAnswer } }
AnswersPage(answers, isNext, total) ==
    [kind |-> "success", status |-> 0, details |-> "none",
     keys |-> {"success", "data"},
     answers |-> answers, isNext |-> isNext, totalAnswer |-> total]

\* action({ params, schema: GetAnswerSchema }); skip and limit
GA_Begin(p) ==
    /\ Enter(p, MaxReadCalls)
    /\ \E qid \in (DOMAIN db.questions) \cup {0},
          page \in 1..MaxPage, pageSize \in 1..MaxPageSize,
          filter \in {"latest", "oldest"}, valid \in BOOLEAN :
        /\ loc' = [loc EXCEPT ![p] =
              [op |-> "getAnswers", questionId |-> qid, page |-> page,
               pageSize |-> pageSize, filter |-> filter, valid |-> valid,
               skip |-> (page - 1) * pageSize, limit |-> pageSize,
               totalAnswers |-> 0,
               error |-> IF valid THEN NoError ELSE ValidationError]]
        /\ IF valid
           THEN pc' = [pc EXCEPT ![p] = "ga_count"] /\ res' = res
           ELSE Return(p, HandleError(ValidationError))
    /\ UNCHANGED <<db, sess, connVars>>

\* const totalAnswers = await Answer.countDocuments({ question: questionId })
GA_Count(p) ==
    /\ pc[p] = "ga_count"
    /\ UNCHANGED <<db, sess, pre, ops, connVars>>
    /\ \/ /\ loc' = [loc EXCEPT ![p].totalAnswers =
                        Cardinality(AnswersOf(db, loc[p].questionId))]
          /\ pc' = [pc EXCEPT ![p] = "ga_find"]
          /\ res' = res
       \/ /\ loc' = [loc EXCEPT ![p].error = DriverError]
          /\ Return(p, HandleError(DriverError))

\* const answers = await Answer.find({ question: questionId }).populate(...)
\*     .sort(sortCriteria).skip(skip).limit(limit); isNext; return
GA_Find(p) ==
    /\ pc[p] = "ga_find"
    /\ UNCHANGED <<db, sess, pre, ops, connVars>>
    /\ \/ LET found == AnswersOf(db, loc[p].questionId)
              sorted == IF loc[p].filter = "oldest"
                        THEN Ascending(found) ELSE Descending(found)
              answers == SkipLimit(sorted, loc[p].skip, loc[p].limit)
          IN /\ loc' = loc
             /\ Return(p, AnswersPage(answers,
                   IsNextOfGetAnswers(loc[p].totalAnswers, loc[p].skip, Len(answers)),
                   loc[p].totalAnswers))
       \/ /\ loc' = [loc EXCEPT ![p].error = DriverError]
          /\ Return(p, HandleError(DriverError))

GetAnswers(p) == GA_Begin(p) \/ GA_Count(p) \/ GA_Find(p)

NextReadAnswers == CreateAnswer(1) \/ GetAnswers(1) \/ Finish(1)

\* createAnswer and getAnswers calls one after the other, on a store that
\* holds one question
SpecReadAnswers == InitAnswer /\ [][NextReadAnswers]_vars

---------------------------------------------------------------------------
(* handleError as a function of the thrown value (src/lib/handlers/error.ts) *)

MaxHandleErrorCalls == 3

\* a thrown value that is no Error (throw "text")
NonError == [class |-> "string", statusCode |-> 0, errors |-> "undefined"]

\* the values handleError is given
ErrorKinds ==
    {ValidationError, ZodError, UnauthorizedError, ForbiddenError,
     NotFoundError, PlainError, DriverError, VersionError, NonError}

ResponseTypes == {"api", "server"}

\* handleError(error, responseType) called and returning
HE_Call(p) ==
    /\ Enter(p, MaxHandleErrorCalls)
    /\ \E error \in ErrorKinds, responseType \in ResponseTypes :
          /\ loc' = [loc EXCEPT ![p] =
                [op |-> "handleError", error |-> error,
                 responseType |-> responseType]]
          /\ Return(p, HandleErrorAs(error, responseType))
    /\ UNCHANGED <<db, sess, connVars>>

NextHandleError == \E p \in Procs : HE_Call(p) \/ Finish(p)

\* handleError applied to every kind of thrown value
SpecHandleError == InitOAuth /\ [][NextHandleError]_vars

---------------------------------------------------------------------------
(* signUpWithCredentials (src/lib/actions/question.action.ts, lines 362-425) *)

MaxSignUpCalls == 2

\* a User created without an image
NoImage == "undefined"

\* return { success: true }
SignUpSuccess ==
    [kind |-> "success", status |-> 0, details |-> "none", keys |-> {"success"}]

\* User.findOne({ username }): the matching user ids
UsersByUsername(d, username) ==
    {u \in DOMAIN d.users : d.users[u].username = username}

\* action({ params, schema: SignUpSchema }) (no session check), then
\* mongoose.startSession() and session.startTransaction()
SU_Begin(p) ==
    /\ Enter(p, MaxSignUpCalls)
    /\ \E name \in DisplayNames, username \in Usernames, email \in Emails,
          valid \in BOOLEAN :
        LET params == [op |-> "signUp", name |-> name, username |-> username,
                       email |-> email, valid |-> valid, newUser |-> 0,
                       accountCreated |-> 0, committed |-> FALSE,
                       error |-> IF valid THEN NoError ELSE ValidationError]
        IN /\ loc' = [loc EXCEPT ![p] = params]
           /\ IF valid
              THEN /\ sess' = [sess EXCEPT ![p] = StartTransaction(StartSession)]
                   /\ pc' = [pc EXCEPT ![p] = "su_finduser"]
                   /\ UNCHANGED res
              ELSE /\ Return(p, HandleError(ValidationError))
                   /\ UNCHANGED sess
    /\ db' = db
    /\ UNCHANGED connVars

\* const existingUser = await User.findOne({ email }).session(session);
\* if (existingUser) throw new Error("User already exists")
SU_FindUser(p) ==
    /\ pc[p] = "su_finduser"
    /\ UNCHANGED <<pre, ops, res>>
    /\ \/ /\ SessionRead(p)
          /\ IF UsersByEmail(SessionView(Touch(sess[p])), loc[p].email) # {}
             THEN Throw(p, "su_catch", PlainError)
             ELSE pc' = [pc EXCEPT ![p] = "su_findusername"] /\ loc' = loc
       \/ /\ Throw(p, "su_catch", DriverError)
          /\ UNCHANGED <<db, sess>>
    /\ UNCHANGED connVars

\* const existingUsername = await User.findOne({ username }).session(session);
\* if (existingUsername) throw new Error("Username already exists");
\* then bcrypt.hash(password, 10)
SU_FindUsername(p) ==
    /\ pc[p] = "su_findusername"
    /\ UNCHANGED <<pre, ops, res>>
    /\ \/ /\ SessionRead(p)
          /\ IF UsersByUsername(SessionView(sess[p]), loc[p].username) # {}
             THEN Throw(p, "su_catch", PlainError)
             ELSE pc' = [pc EXCEPT ![p] = "su_createuser"] /\ loc' = loc
       \/ /\ Throw(p, "su_catch", DriverError)
          /\ UNCHANGED <<db, sess>>
    /\ UNCHANGED connVars

\* const [newUser] = await User.create([{ name, username, email }], { session })
SU_CreateUser(p) ==
    /\ pc[p] = "su_createuser"
    /\ UNCHANGED <<pre, ops, res>>
    /\ LET d == SessionView(sess[p])
           doc == UserDoc(loc[p].name, loc[p].username, loc[p].email, NoImage)
           keys == UserKeys(FreshId, doc)
       IN \/ /\ ~UserDuplicate(d, doc)
             /\ ~Conflict(p, keys)
             /\ SessionWrite(p, Insert(d, "users", FreshId, doc), keys)
             /\ loc' = [loc EXCEPT ![p].newUser = FreshId]
             /\ pc' = [pc EXCEPT ![p] = "su_createaccount"]
          \/ /\ Throw(p, "su_catch", DriverError)
             /\ UNCHANGED <<db, sess>>
    /\ UNCHANGED connVars

\* await Account.create([{ userId: newUser._id, name, provider: "credentials",
\*     providerAccountId: email, password: hashedPassword }], { session })
SU_CreateAccount(p) ==
    /\ pc[p] = "su_createaccount"
    /\ UNCHANGED <<pre, ops, res>>
    /\ \/ /\ SessionWrite(p,
                Insert(SessionView(sess[p]), "accounts", FreshId,
                       AccountDoc(loc[p].newUser, loc[p].name, NoImage,
                                  "credentials", loc[p].email)),
                {<<"accounts", FreshId>>})
          /\ loc' = [loc EXCEPT ![p].accountCreated = FreshId]
          /\ pc' = [pc EXCEPT ![p] = "su_commit"]
       \/ /\ Throw(p, "su_catch", DriverError)
          /\ UNCHANGED <<db, sess>>
    /\ UNCHANGED connVars

\* await session.commitTransaction()
SU_Commit(p) ==
    /\ pc[p] = "su_commit"
    /\ UNCHANGED <<pre, ops, res>>
    /\ \/ /\ db' = CommitDb(p)
          /\ sess' = CommitSess(p)
          /\ loc' = [loc EXCEPT ![p].committed = TRUE]
          /\ pc' = [pc EXCEPT ![p] = "su_signin"]
       \/ /\ CommitFail(p)
          /\ Throw(p, "su_catch", DriverError)
    /\ UNCHANGED connVars

\* await signIn("credentials", { email, password, redirect: false });
\* return { success: true }; finally: await session.endSession()
SU_SignIn(p) ==
    /\ pc[p] = "su_signin"
    /\ UNCHANGED <<db, pre, ops>>
    /\ \/ /\ Return(p, SignUpSuccess)
          /\ sess' = [sess EXCEPT ![p] = EndSession(@)]
          /\ loc' = loc
       \/ /\ Throw(p, "su_catch", PlainError)
          /\ UNCHANGED <<sess, res>>
    /\ UNCHANGED connVars

\* catch: await session.abortTransaction(); return handleError(error);
\* finally: await session.endSession()
SU_Catch(p) ==
    /\ pc[p] = "su_catch"
    /\ UNCHANGED <<db, pre, ops>>
    /\ loc' = loc
    /\ sess' = [sess EXCEPT ![p] = EndSession(AbortTransaction(@))]
    /\ IF AbortAccepted(sess[p])
       THEN Return(p, HandleError(loc[p].error))
       ELSE Return(p, Thrown)
    /\ UNCHANGED connVars

SignUpWithCredentials(p) ==
    \/ SU_Begin(p) \/ SU_FindUser(p) \/ SU_FindUsername(p) \/ SU_CreateUser(p)
    \/ SU_CreateAccount(p) \/ SU_Commit(p) \/ SU_SignIn(p) \/ SU_Catch(p)

---------------------------------------------------------------------------
(* Question calls one after the other, from an empty store *)

InitQuestion ==
    /\ InitCommon
    /\ db = EmptyDb
    /\ pre = [p \in Procs |-> EmptyDb]

NextQuestion == CreateQuestion(1) \/ EditQuestion(1) \/ Finish(1)

Spec == InitQuestion /\ [][NextQuestion]_vars


\* a store holding one committed question of u1 with the tag js, as
\* createQuestion leaves it
SeedQuestionDb ==
    [EmptyDb EXCEPT
        !.questions = (1 :> QuestionDoc("t1", "c1", "u1", <<2>>, 0)),
        !.tags = (2 :> [name |-> <<"j", "s">>, questions |-> 1]),
        !.tq = (3 :> [tag |-> 2, question |-> 1])]

InitQuestions ==
    /\ InitCommon
    /\ db = SeedQuestionDb
    /\ pre = [p \in Procs |-> SeedQuestionDb]

CreateQuestionOneTag(p) ==
    \/ CQ_BeginOneTag(p) \/ CQ_Create(p) \/ CQ_Tag(p) \/ CQ_Rows(p) \/ CQ_Push(p)
    \/ CQ_Commit(p) \/ CQ_Catch(p)

EditQuestionOneTag(p) ==
    \/ EQ_BeginOneTag(p) \/ EQ_Find(p) \/ EQ_Title(p) \/ EQ_Add(p) \/ EQ_Dec(p)
    \/ EQ_Del(p) \/ EQ_Rows(p) \/ EQ_Save(p) \/ EQ_Commit(p) \/ EQ_Catch(p)

NextQuestions ==
    \E p \in Procs : CreateQuestionOneTag(p) \/ EditQuestionOneTag(p) \/ Finish(p)

\* createQuestion and editQuestion calls by the author in any interleaving,
\* on a store that holds one question
SpecQuestions == InitQuestions /\ [][NextQuestions]_vars

NextActions ==
    \/ CreateQuestion(1) \/ EditQuestion(1) \/ GetQuestion(1)
    \/ CreateAnswer(1) \/ Finish(1)

\* the server actions declared with isAuthorize, one call after the other,
\* from an empty store
SpecActions == InitQuestion /\ [][NextActions]_vars

NextSignUpSeq == SignUpWithCredentials(1) \/ Finish(1)

\* credential sign-ups one after the other, from an empty store
SpecSignUpSeq == InitOAuth /\ [][NextSignUpSeq]_vars

NextSessions ==
    \/ CreateQuestionOneTag(1) \/ EditQuestionOneTag(1) \/ CreateAnswer(1)
    \/ SignInWithOAuth(1) \/ SignUpWithCredentials(1) \/ Finish(1)

\* the operations that open a session, one call after the other on a store
\* that holds one question; every await a call is suspended at eventually
\* settles, so a step that can be taken is eventually taken
SpecSessions == InitQuestions /\ [][NextSessions]_vars /\ WF_vars(NextSessions)

---------------------------------------------------------------------------
(* Claims about the question calls, checked under Spec *)

\* the TagQuestion rows of d that reference Tag t
RowsOfTag(d, t) == {r \in DOMAIN d.tq : d.tq[r].tag = t}

\* request p has returned from a call of op
Returned(p, op) == pc[p] = "done" /\ loc[p].op = op

\* no store operation of p's call was failed by the driver
NoDriverError(p) == loc[p].error.class # DriverError.class

\* C1: after any sequence of committed or aborted createQuestion and
\* editQuestion calls from an empty store, every Tag's questions counter equals
\* the number of TagQuestion rows that reference the Tag
C1_TagCountEqualsRows ==
    \A t \in DOMAIN db.tags :
        db.tags[t].questions = Cardinality(RowsOfTag(db, t))

\* C4: createQuestion with two tag names that are equal ignoring case, on a
\* store with no such tag, yields exactly one Tag with the casing of the first
\* name and usage count 1, exactly one TagQuestion row, and one entry for the
\* tag in the question's tag list
C4_DuplicateNamesCollapse ==
    \A p \in Procs :
        ( /\ Returned(p, "createQuestion")
          /\ res[p].kind = "success"
          /\ Len(loc[p].tags) = 2
          /\ ToLowerCase(loc[p].tags[1]) = ToLowerCase(loc[p].tags[2])
          /\ MatchingTags(pre[p], loc[p].tags[1]) = {} )
        => /\ Cardinality(MatchingTags(db, loc[p].tags[1])) = 1
           /\ \A t \in MatchingTags(db, loc[p].tags[1]) :
                 /\ db.tags[t].name = loc[p].tags[1]
                 /\ db.tags[t].questions = 1
                 /\ Cardinality(RowsOfTag(db, t)) = 1
                 /\ db.questions[loc[p].question].tags = <<t>>

\* C5: editQuestion called by an authenticated caller who is not the
\* question's author returns a failure with status 401 or 403 and leaves every
\* document unchanged
C5_NonAuthorEditIsUnauthorized ==
    \A p \in Procs :
        ( /\ Returned(p, "editQuestion")
          /\ loc[p].userId # NoSession
          /\ TagsValid(loc[p].tags)
          /\ NoDriverError(p)
          /\ loc[p].questionId \in DOMAIN pre[p].questions
          /\ pre[p].questions[loc[p].questionId].author # loc[p].userId )
        => /\ res[p].kind = "error"
           /\ res[p].status \in {401, 403}
           /\ db = pre[p]

\* C6: editQuestion with a questionId that matches no Question returns a
\* failure with status 404 and performs no write
C6_EditMissingQuestionIsNotFound ==
    \A p \in Procs :
        ( /\ Returned(p, "editQuestion")
          /\ loc[p].userId # NoSession
          /\ TagsValid(loc[p].tags)
          /\ NoDriverError(p)
          /\ loc[p].questionId \notin DOMAIN pre[p].questions )
        => /\ res[p].kind = "error"
           /\ res[p].status = 404
           /\ db = pre[p]

\* C8: when a step of createQuestion fails after the transaction has started
\* (the question insert, a tag upsert, the TagQuestion insert, the tag-list
\* update or the commit), a failure response is returned and the store holds
\* nothing of that call
C8_FailedCreateReturnsFailure ==
    \A p \in Procs :
        ( /\ Returned(p, "createQuestion")
          /\ loc[p].error # NoError )
        => /\ res[p].kind = "error"
           /\ db = pre[p]

\* C9: when a step of editQuestion fails after the transaction has started,
\* none of its effects persist: until the call has succeeded the committed
\* documents are those it found, and when it has succeeded the title, the
\* content and the tag list it computed are there together
C9_EditAllOrNothing ==
    \A p \in Procs :
        loc[p].op = "editQuestion"
        => IF pc[p] = "done" /\ res[p].kind = "success"
           THEN /\ db.questions[loc[p].questionId].title = loc[p].title
                /\ db.questions[loc[p].questionId].content = loc[p].content
                /\ db.questions[loc[p].questionId].tags = loc[p].qtags
           ELSE db = pre[p]

\* C9's case: an edit that had changed the title, decremented a tag counter
\* and deleted rows inside its transaction, and then failed
C9_Witness ==
    \E p \in Procs :
        /\ Returned(p, "editQuestion")
        /\ loc[p].reassigned
        /\ pre[p].questions[loc[p].questionId].title # loc[p].title
        /\ loc[p].error # NoError
        /\ Failed(res[p])

---------------------------------------------------------------------------
(* Claims about createAnswer *)

\* C2: for every createAnswer attempt, also one whose Answer insert succeeds
\* and whose save of the parent Question fails, the store ends with both the
\* new Answer and the parent's counter incremented by one, or with neither
\* (checked under SpecAnswerSeq)
C2_AnswerAndCounterTogether ==
    \A p \in Procs :
        (Returned(p, "createAnswer") /\ loc[p].found)
        => LET q == loc[p].questionId
               created == (DOMAIN db.answers) \ (DOMAIN pre[p].answers)
           IN \/ /\ Cardinality(created) = 1
                 /\ db.questions[q].answers = pre[p].questions[q].answers + 1
              \/ /\ created = {}
                 /\ db.questions[q].answers = pre[p].questions[q].answers

\* C3: when createAnswer calls for the same question run concurrently and all
\* succeed, the question's counter ends at its previous value plus the number
\* of Answer documents created (checked under SpecAnswer)
C3_NoLostUpdate ==
    \A q \in DOMAIN db.questions :
        ( \A p \in Procs :
            /\ Returned(p, "createAnswer")
            /\ res[p].kind = "success"
            /\ loc[p].questionId = q
            /\ pre[p] = pre[1] )
        => db.questions[q].answers =
              pre[1].questions[q].answers
                 + Cardinality(AnswersOf(db, q) \ AnswersOf(pre[1], q))

\* C7: createAnswer with a questionId that matches no Question fails with
\* status 404, creates no Answer and changes no counter (checked under
\* SpecAnswerSeq)
C7_AnswerMissingQuestionIsNotFound ==
    \A p \in Procs :
        ( /\ Returned(p, "createAnswer")
          /\ loc[p].userId # NoSession
          /\ res[p].status # ValidationError.statusCode
          /\ NoDriverError(p)
          /\ loc[p].questionId \notin DOMAIN pre[p].questions )
        => /\ res[p].kind = "error"
           /\ res[p].status = 404
           /\ db = pre[p]

---------------------------------------------------------------------------
(* Claims about the OAuth sign-in, checked under SpecOAuth *)

\* the Account rows of d for (provider, providerAccountId)
AccountsForPair(d, provider, providerAccountId) ==
    {a \in DOMAIN d.accounts :
        /\ d.accounts[a].provider = provider
        /\ d.accounts[a].providerAccountId = providerAccountId}

\* p's sign-in is the second of two for its pair with different display
\* names: the first ran before it, or has just succeeded beside it
SecondSignIn(p) ==
    \/ \E a \in AccountsForPair(pre[p], loc[p].provider, loc[p].providerAccountId) :
          pre[p].accounts[a].name # loc[p].name
    \/ \E r \in Procs \ {p} :
          /\ Returned(r, "oauth")
          /\ res[r].kind = "success"
          /\ loc[r].provider = loc[p].provider
          /\ loc[r].providerAccountId = loc[p].providerAccountId
          /\ loc[r].name # loc[p].name

\* C10: two sign-ins with the same (provider, providerAccountId) and different
\* display names, one after the other or concurrently, leave exactly one
\* Account row for that pair
C10_OneAccountRowPerPair ==
    \A p \in Procs :
        ( /\ Returned(p, "oauth")
          /\ res[p].kind = "success"
          /\ SecondSignIn(p) )
        => Cardinality(AccountsForPair(db, loc[p].provider,
                                       loc[p].providerAccountId)) = 1

---------------------------------------------------------------------------
(* Claims about Account rows, checked under SpecAccounts *)

\* C11: in every reachable state no two Account documents share the same
\* (provider, providerAccountId) pair, for any interleaving of POST
\* /api/accounts requests and OAuth sign-ins
C11_AccountPairUnique ==
    \A a, b \in DOMAIN db.accounts :
        ( /\ db.accounts[a].provider = db.accounts[b].provider
          /\ db.accounts[a].providerAccountId = db.accounts[b].providerAccountId )
        => a = b

\* every email has at most one User document
OneUserPerEmail(d) == \A e \in Emails : Cardinality(UsersByEmail(d, e)) <= 1

\* C12: OAuth sign-ins that carry the same email, in any interleaving, result
\* in exactly one User for that email, with one Account per (provider,
\* providerAccountId) whose userId points at that User (checked under SpecOAuth)
C12_OneUserOneAccountPerProvider ==
    /\ OneUserPerEmail(db)
    /\ \A p \in Procs :
          (Returned(p, "oauth") /\ res[p].kind = "success")
          => /\ Cardinality(UsersByEmail(db, loc[p].email)) = 1
             /\ \A u \in UsersByEmail(db, loc[p].email) :
                   Cardinality(AccountsOf(db, u, loc[p].provider,
                                          loc[p].providerAccountId)) = 1

\* the fields of { name, image } in which the User document read by p's
\* sign-in differs from the request
ChangedFields(p) ==
    {f \in {"name", "image"} : loc[p].existingDoc[f] # loc[p][f]}

\* p's sign-in found its User and is past the profile update
PastUserUpdate(p) ==
    /\ loc[p].op = "oauth"
    /\ loc[p].existingDoc # NoDoc
    /\ \/ pc[p] \in {"oa_findaccount", "oa_createaccount", "oa_commit"}
       \/ pc[p] = "done" /\ res[p].kind = "success"

\* C13: a sign-in for an email whose User already has the request's name and
\* image issues no update to the User document; when fields differ, exactly
\* the differing fields are written, and the transaction holds the document
\* as it was read with those fields replaced (checked under SpecOAuth)
C13_OnlyChangedFieldsWritten ==
    \A p \in Procs :
        PastUserUpdate(p)
        => /\ loc[p].userWritten = ChangedFields(p)
           /\ sess[p].txn = "active"
              => LET u == loc[p].existingUser
                 IN /\ (<<"users", u>> \in sess[p].wset) <=> (ChangedFields(p) # {})
                    /\ sess[p].view.users[u] =
                          [loc[p].existingDoc EXCEPT
                              !.name = loc[p].name, !.image = loc[p].image]

\* C13's case: a completed sign-in whose User differed from the request in
\* the image only, and one whose User did not differ at all
C13_Witness ==
    \E p, r \in Procs :
        /\ PastUserUpdate(p) /\ pc[p] = "oa_commit"
        /\ ChangedFields(p) = {"image"} /\ loc[p].userWritten = {"image"}
        /\ PastUserUpdate(r) /\ pc[r] = "oa_commit"
        /\ ChangedFields(r) = {} /\ loc[r].userWritten = {}

\* C14: a sign-in that finds an existing Account for (userId, provider,
\* providerAccountId) leaves that Account, and every other one, unchanged,
\* also when the request carries a different name or image: it writes no
\* Account inside its transaction and the committed Accounts stay as they were
\* (checked under SpecOAuth)
C14_ExistingAccountUntouched ==
    \A p \in Procs :
        (loc[p].op = "oauth" /\ loc[p].accountFound)
        => /\ loc[p].accountCreated = 0
           /\ \A k \in sess[p].wset : k[1] # "accounts"
           /\ sess[p].txn = "active"
              => \A a \in DOMAIN sess[p].view.accounts :
                    /\ a \in DOMAIN db.accounts
                    /\ sess[p].view.accounts[a] = db.accounts[a]
           /\ \A a \in DOMAIN pre[p].accounts :
                 /\ a \in DOMAIN db.accounts
                 /\ db.accounts[a] = pre[p].accounts[a]

\* C14's case: a sign-in that succeeded on an existing Account whose stored
\* name or image differs from the request's
C14_Witness ==
    \E p \in Procs :
        /\ Returned(p, "oauth") /\ res[p].kind = "success"
        /\ loc[p].accountFound
        /\ \E a \in AccountsOf(db, loc[p].existingUser, loc[p].provider,
                               loc[p].providerAccountId) :
              /\ a \in DOMAIN pre[p].accounts
              /\ db.accounts[a].name # loc[p].name
              /\ db.accounts[a].image # loc[p].image

---------------------------------------------------------------------------
(* Claims about the question calls, checked under Spec *)

\* an empty tag list, more than 3 tags, or a tag longer than 30 characters
TagsRefused(tags) ==
    \/ Len(tags) = 0
    \/ Len(tags) > 3
    \/ \E i \in DOMAIN tags : Len(tags[i]) > 30

\* C15: createQuestion and editQuestion called with an empty tag list, with
\* more than 3 tags or with a tag longer than 30 characters return a
\* validation failure (status 400 with per-field messages) in the step that
\* enters the call, which writes no document and starts no session or
\* transaction
C15_InvalidTagsRejected ==
    [][ \A p \in Procs :
          ( /\ pc[p] = "idle"
            /\ pc'[p] # "idle"
            /\ loc'[p].op \in {"createQuestion", "editQuestion"}
            /\ TagsRefused(loc'[p].tags) )
          => /\ pc'[p] = "done"
             /\ res'[p].kind = "error"
             /\ res'[p].status = 400
             /\ res'[p].details = "fieldErrors"
             /\ db' = db
             /\ sess' = sess ]_vars

\* C15's case: a createQuestion by an authenticated caller refused for a tag
\* of 31 characters
C15_Witness ==
    \E p \in Procs :
        /\ Returned(p, "createQuestion")
        /\ loc[p].userId # NoSession
        /\ \E i \in DOMAIN loc[p].tags : Len(loc[p].tags[i]) = 31
        /\ res[p].status = 400

---------------------------------------------------------------------------
(* Claims about the gate of the server actions, checked under SpecActions *)

AuthorizedOps == {"createQuestion", "editQuestion", "getQuestion", "createAnswer"}

\* the step in which p enters a call of an operation declared with
\* isAuthorize while no caller session exists
EntersWithoutSession(p) ==
    /\ pc[p] = "idle"
    /\ pc'[p] # "idle"
    /\ loc'[p].op \in AuthorizedOps
    /\ loc'[p].userId = NoSession

\* ... and that step returns UnauthorizedError before any database
\* connection, session, transaction or write
ShortCircuits401(p) ==
    /\ pc'[p] = "done"
    /\ res'[p].kind = "error"
    /\ res'[p].status = 401
    /\ ~loc'[p].dbConnected
    /\ db' = db
    /\ sess' = sess

\* C16 as stated: when no caller session exists, every operation declared
\* with isAuthorize returns an UnauthorizedError failure (status 401) before
\* any database connection, session, transaction or write is attempted
C16_NoSessionIsUnauthorized ==
    [][ \A p \in Procs : EntersWithoutSession(p) => ShortCircuits401(p) ]_vars

\* C16 amended: when no caller session exists and the parameters pass the
\* operation's schema, every operation declared with isAuthorize returns an
\* UnauthorizedError failure (status 401) before any database connection,
\* session, transaction or write is attempted; parameters the schema refuses
\* are answered with the validation failure (status 400) first, equally
\* before any connection, session, transaction or write
C16_ValidNoSessionIsUnauthorized ==
    [][ \A p \in Procs :
          EntersWithoutSession(p)
          => IF loc'[p].valid
             THEN ShortCircuits401(p)
             ELSE /\ pc'[p] = "done"
                  /\ res'[p].status = 400
                  /\ ~loc'[p].dbConnected
                  /\ db' = db
                  /\ sess' = sess ]_vars

\* C16's case: a createAnswer with valid parameters and no caller session has
\* been answered, on a store that holds a question
C16_Witness ==
    \E p \in Procs :
        /\ Returned(p, "createAnswer")
        /\ loc[p].userId = NoSession
        /\ loc[p].valid
        /\ res[p].status = 401
        /\ DOMAIN db.questions # {}

---------------------------------------------------------------------------
(* Claims about concurrent question calls, checked under SpecQuestions *)

\* no request is inside a call
Quiescent == \A p \in Procs : pc[p] \in {"idle", "done"}

\* C17: when two createQuestion (or editQuestion) calls that name the same
\* not-yet-existing tag, with equal or different letter case, run
\* concurrently, then after both finish there is at most one Tag whose name
\* matches ignoring case, and its counter equals the number of committed
\* associations to it
C17_OneTagPerNameIgnoringCase ==
    Quiescent
    => \A a \in DOMAIN db.tags :
          /\ \A b \in DOMAIN db.tags :
                ToLowerCase(db.tags[a].name) = ToLowerCase(db.tags[b].name) => a = b
          /\ db.tags[a].questions = Cardinality(RowsOfTag(db, a))

\* C18: no Tag's questions counter is ever negative among the committed
\* documents, for any sequence and any interleaving of createQuestion and
\* editQuestion calls, including two edits of the same question that both
\* remove the same tag
C18_TagCounterNeverNegative ==
    \A t \in DOMAIN db.tags : db.tags[t].questions >= 0

\* C18's case: of two edits of one question that both remove the same tag,
\* one has committed and the other, which had decremented the counter again
\* inside its transaction, has been refused by the version check
C18_Witness ==
    \E p \in Procs :
        /\ Returned(p, "editQuestion")
        /\ loc[p].error = VersionError
        /\ \E t \in loc[p].toRemove :
              /\ pre[p].tags[t].questions = 1
              /\ db.tags[t].questions = 0

---------------------------------------------------------------------------
(* Claims about the TagQuestion rows, checked under Spec *)

\* the TagQuestion rows of d that associate Tag t with Question q
RowsOfPair(d, t, q) ==
    {r \in DOMAIN d.tq : d.tq[r].tag = t /\ d.tq[r].question = q}

\* C19: in every committed state a TagQuestion row (tag, question) exists
\* exactly when the tag's id is a member of that question's tag list, and
\* there is at most one row per (tag, question) pair
C19_RowsMirrorTagList ==
    /\ \A r \in DOMAIN db.tq : db.tq[r].question \in DOMAIN db.questions
    /\ \A q \in DOMAIN db.questions : \A t \in DOMAIN db.tags :
          /\ (RowsOfPair(db, t, q) # {}) <=> (t \in Range(db.questions[q].tags))
          /\ Cardinality(RowsOfPair(db, t, q)) <= 1

---------------------------------------------------------------------------
(* Claims about the transactional scope, checked under SpecAnswerSeq *)

\* C20: every read and every write of a multi-step operation runs inside one
\* started transaction of one session, so that no intermediate state is
\* committed while the operation is in progress: with calls running one after
\* the other, a call in progress has a started transaction and the committed
\* documents are still those it found on entry
C20_OneTransactionPerOperation ==
    \A p \in Procs :
        pc[p] \notin {"idle", "done"}
        => /\ InTxn(sess[p])
           /\ db = pre[p]

---------------------------------------------------------------------------
(* Claims about the release of sessions, checked under SpecSessions *)

\* C21: every session opened by createQuestion, editQuestion, createAnswer,
\* signUpWithCredentials and the OAuth sign-in route is eventually ended, on
\* every exit path: success, early return, handled failure and thrown error
C21_SessionsEventuallyEnded ==
    \A p \in Procs : sess[p].open ~> ~sess[p].open

\* C21's case: a call whose catch block threw has left, its session ended
C21_Witness ==
    \E p \in Procs :
        /\ pc[p] = "done"
        /\ res[p] = Thrown
        /\ loc[p].op \in {"createQuestion", "editQuestion", "oauth", "signUp"}
        /\ ~sess[p].open

---------------------------------------------------------------------------
(* Claims about signUpWithCredentials, checked under SpecSignUpSeq *)

\* C28: if any error occurs during signUpWithCredentials, including a
\* failure of the sign-in step that follows the commit, the transaction is
\* aborted, no new User or Account document persists, and the function
\* returns an error response instead of throwing
C28_FailedSignUpLeavesNothing ==
    \A p \in Procs :
        (Returned(p, "signUp") /\ loc[p].error # NoError)
        => /\ res[p].kind = "error"
           /\ db.users = pre[p].users
           /\ db.accounts = pre[p].accounts

---------------------------------------------------------------------------
(* Claims about dbConnect, checked under SpecConnect *)

\* p is in a dbConnect call that found no cached connection
CalledUnconnected(p) ==
    /\ pc[p] \in {"dc_await", "done"}
    /\ loc[p].op = "dbConnect"
    /\ loc[p].awaited # Null

\* C22: for any number of dbConnect calls started concurrently before a
\* connection exists, exactly one connection attempt is made (the calls all
\* wait for the same attempt) and every caller that is given a connection is
\* given the same one
C22_ConcurrentCallsShareOneAttempt ==
    \A p, q \in Procs :
        (CalledUnconnected(p) /\ CalledUnconnected(q))
        => /\ loc[p].awaited = loc[q].awaited
           /\ Len(promises) = 1
           /\ (pc[p] = "done" /\ pc[q] = "done") => res[p] = res[q]

\* C22's case: two calls that both started before a connection existed have
\* both returned the connection of the one attempt
C22_Witness ==
    /\ Cardinality({p \in Procs : CalledUnconnected(p)}) >= 2
    /\ \A p \in Procs :
          CalledUnconnected(p) => pc[p] = "done" /\ res[p] = Connection(1)

\* C30: across the whole life of the process dbConnect starts at most one
\* connection attempt: once the first attempt has failed every later call
\* fails with that same error without starting a new attempt, and once it has
\* succeeded every later call returns the same cached connection
C30_AtMostOneAttemptEver ==
    /\ Len(promises) <= 1
    /\ \A p \in Procs :
          Returned(p, "dbConnect")
          => /\ promises[1] = Rejected => res[p] = ConnectError(1)
             /\ promises[1] = Fulfilled => res[p] = Connection(1)

\* C30's case: a call started after the first attempt had failed has failed
\* with the same error (of three calls by two callers, the third starts after
\* one has returned)
C30_Witness ==
    /\ ops >= 3
    /\ promises = <<Rejected>>
    /\ \A p \in Procs : Returned(p, "dbConnect") /\ res[p] = ConnectError(1)

---------------------------------------------------------------------------
(* Claims about the failure envelope, checked under SpecHandleError *)

\* C23: every failure response produced by handleError, for server actions
\* and for API routes, is an envelope whose success field is present (and
\* false), together with an error object
C23_FailureEnvelopeHasSuccess ==
    \A p \in Procs :
        Returned(p, "handleError")
        => /\ res[p].kind = "error"
           /\ "success" \in res[p].keys
           /\ "error" \in res[p].keys

---------------------------------------------------------------------------
(* Claims about the status of failures, checked under Spec *)

\* the status the error taxonomy gives a thrown value
TaxonomyStatus(e) ==
    CASE e = ValidationError -> 400
      [] e = ZodError -> 400
      [] e = UnauthorizedError -> 401
      [] e = ForbiddenError -> 403
      [] e = NotFoundError -> 404
      [] OTHER -> 500

\* a response is the failure envelope the taxonomy gives e: its status, and
\* per-field messages exactly for the two validation kinds
SurfacesByKind(r, e) ==
    /\ r.kind = "error"
    /\ r.status = TaxonomyStatus(e)
    /\ (r.details = "fieldErrors") <=> (e \in {ValidationError, ZodError})

\* handleError as a function maps every kind of thrown value to its status
HandleErrorMapsKinds ==
    \A e \in ErrorKinds, t \in ResponseTypes : SurfacesByKind(HandleErrorAs(e, t), e)

\* C24: handleError maps each error kind to its status (ValidationError and
\* ZodError to 400 with per-field messages, UnauthorizedError to 401,
\* ForbiddenError to 403, NotFoundError to 404, every other thrown value to
\* 500), and an error raised inside a transaction surfaces as 500 unless it
\* was raised as one of the named kinds
C24_ErrorsSurfaceByKind ==
    /\ HandleErrorMapsKinds
    /\ \A p \in Procs :
          ( /\ pc[p] = "done"
            /\ loc[p].op \in {"createQuestion", "editQuestion"}
            /\ loc[p].error # NoError )
          => SurfacesByKind(res[p], loc[p].error)

---------------------------------------------------------------------------
(* Claims about the tag delta of editQuestion, checked under Spec *)

\* p's editQuestion call has computed tagsToAdd and tagsToRemove
DeltaComputed(p) ==
    /\ loc[p].op = "editQuestion"
    /\ pc[p] \in {"eq_title", "eq_add", "eq_dec", "eq_del", "eq_rows",
                  "eq_save", "eq_commit"}

\* C25: in editQuestion, tagsToAdd is exactly the set of requested tag names
\* that equal no current tag name ignoring case, and tagsToRemove is exactly
\* the set of current tags whose name equals no requested name ignoring case;
\* a requested name that is only a substring of a current tag name is in
\* tagsToAdd
C25_TagDeltaIsExact ==
    \A p \in Procs :
        DeltaComputed(p)
        => LET requested == Range(loc[p].tags)
               current == Range(loc[p].current)
           IN /\ Range(loc[p].toAdd) =
                    {tag \in requested :
                        \A c \in current : ToLowerCase(c.name) # ToLowerCase(tag)}
              /\ loc[p].toRemove =
                    {c.id : c \in {x \in current :
                        \A tag \in requested :
                            ToLowerCase(tag) # ToLowerCase(x.name)}}

\* C26: after every successful editQuestion the set of tag names attached to
\* the question equals, ignoring case, the set of tag names requested in the
\* call
C26_AttachedTagsAreRequested ==
    \A p \in Procs :
        (Returned(p, "editQuestion") /\ res[p].kind = "success")
        => {ToLowerCase(db.tags[t].name) :
                t \in Range(db.questions[loc[p].questionId].tags)}
              = {ToLowerCase(tag) : tag \in Range(loc[p].tags)}

\* p has returned from an editQuestion call made by the author with the
\* stored title, the stored content and the current tag names
EditRestatesQuestion(p) ==
    /\ Returned(p, "editQuestion")
    /\ loc[p].questionId \in DOMAIN pre[p].questions
    /\ LET q == pre[p].questions[loc[p].questionId]
       IN /\ loc[p].userId = q.author
          /\ loc[p].title = q.title
          /\ loc[p].content = q.content
          /\ Range(loc[p].tags) = {pre[p].tags[t].name : t \in Range(q.tags)}

\* C27: editQuestion called by the author with the stored title, the stored
\* content and the current tag names changes no Question field, no Tag
\* counter and no TagQuestion row (so applying it twice leaves the same state
\* as applying it once)
C27_RestatingEditChangesNothing ==
    \A p \in Procs : EditRestatesQuestion(p) => db = pre[p]

\* C27's case: such an edit has succeeded
C27_Witness ==
    \E p \in Procs : EditRestatesQuestion(p) /\ res[p].kind = "success"

---------------------------------------------------------------------------
(* Claims about getAnswers, checked under SpecReadAnswers *)

\* C29: getAnswers returns isNext = true exactly when the question has more
\* answers than those on the pages up to and including the requested page
\* (total > (page - 1) * pageSize + number returned), the rule getQuestions
\* applies; in particular isNext is false on page 1 when all answers fit
C29_IsNextMeansMoreAnswers ==
    \A p \in Procs :
        (Returned(p, "getAnswers") /\ res[p].kind = "success")
        => res[p].isNext =
              IsNextOfGetQuestions(res[p].totalAnswer,
                                   (loc[p].page - 1) * loc[p].pageSize,
                                   Len(res[p].answers))

=============================================================================
